---- MODULE Spec2Model ----
(***************************************************************************)
(* Sky-position cone searches over the `dwarfs` MongoDB collection:        *)
(* the 2dsphere ($nearSphere / $geoNear) strategy with the WGS84 scaling   *)
(* of the search radius, the HEALPix strategy with integer pixel ids, the  *)
(* loops that build the derived fields coords.loc and coords.healpix, and  *)
(* the catalog loader; stcs_to_geojson; FitsWrapper and the loads of FITS  *)
(* headers into the `fits` collection.                                     *)
(*                                                                         *)
(* Angles are integers in arcseconds (Deg arcseconds per degree), lengths  *)
(* are integers in metres, trigonometric values are fixed-point numbers    *)
(* with four decimals, six where pixels of a few arcseconds are told       *)
(* apart.  All arithmetic stays below 2^31.                                *)
(***************************************************************************)
EXTENDS Integers, Sequences, FiniteSets, TLC

\* ------------------------------------------------------------------------
\* Units and fixed-point helpers
\* ------------------------------------------------------------------------

\* arcseconds per degree (astropy units u.deg / u.arcsec)
Deg == 3600

\* fixed-point scale of sines, cosines and z
Z == 10000

Abs(x) == IF x < 0 THEN -x ELSE x

Min(x, y) == IF x <= y THEN x ELSE y

\* integer square root by bisection: the r with r*r <= n < (r+1)*(r+1)
RECURSIVE SqrtBisect(_, _, _)
SqrtBisect(n, lo, hi) ==
    IF lo >= hi THEN lo
    ELSE LET mid == (lo + hi + 1) \div 2
         IN IF mid * mid <= n THEN SqrtBisect(n, mid, hi)
            ELSE SqrtBisect(n, lo, mid - 1)

ISqrt(n) == SqrtBisect(n, 0, 46340)

\* sin of whole degrees 0..90, four decimals (np.sin(np.radians(d)))
SinTable ==
  << 0, 175, 349, 523, 698, 872, 1045, 1219, 1392, 1564, 1736, 1908, 2079, 2250, 2419, 2588,
     2756, 2924, 3090, 3256, 3420, 3584, 3746, 3907, 4067, 4226, 4384, 4540, 4695, 4848, 5000,
     5150, 5299, 5446, 5592, 5736, 5878, 6018, 6157, 6293, 6428, 6561, 6691, 6820, 6947, 7071,
     7193, 7314, 7431, 7547, 7660, 7771, 7880, 7986, 8090, 8192, 8290, 8387, 8480, 8572, 8660,
     8746, 8829, 8910, 8988, 9063, 9135, 9205, 9272, 9336, 9397, 9455, 9511, 9563, 9613, 9659,
     9703, 9744, 9781, 9816, 9848, 9877, 9903, 9925, 9945, 9962, 9976, 9986, 9994, 9998, 10000 >>

\* an angle in arcseconds rounded to the nearest whole degree
RoundDeg(a) == (a + Deg \div 2) \div Deg

\* sine of d whole degrees, any integer d
SinDeg(d) ==
    LET m == d % 360
    IN IF m <= 90 THEN SinTable[m + 1]
       ELSE IF m <= 180 THEN SinTable[180 - m + 1]
       ELSE IF m <= 270 THEN -SinTable[m - 180 + 1]
       ELSE -SinTable[360 - m + 1]

CosDeg(d) == SinDeg(d + 90)

\* sine and cosine of an angle in arcseconds
Sin(a) == SinDeg(RoundDeg(a))

Cos(a) == CosDeg(RoundDeg(a))

\* the largest d in lo..hi with CosDeg(d) >= c, the cosine decreasing on 0..180
RECURSIVE ArcCosBisect(_, _, _)
ArcCosBisect(c, lo, hi) ==
    IF lo >= hi THEN lo
    ELSE LET mid == (lo + hi + 1) \div 2
         IN IF CosDeg(mid) >= c THEN ArcCosBisect(c, mid, hi)
            ELSE ArcCosBisect(c, lo, mid - 1)

\* whole degrees d in 0..180 whose cosine is nearest to c
ArcCosDeg(c) ==
    LET lo == ArcCosBisect(c, 0, 180)
        hi == Min(lo + 1, 180)
    IN IF Abs(CosDeg(hi) - c) < Abs(CosDeg(lo) - c) THEN hi ELSE lo

\* ------------------------------------------------------------------------
\* Six-decimal sines and cosines, for angles given to the arcsecond
\* ------------------------------------------------------------------------

\* fixed-point scale of the six-decimal values
M6 == 1000000

\* a * b of two six-decimal values, computed in parts that stay below 2^31
Mul6(a, b) ==
    LET a1 == a \div 1000
        a0 == a % 1000
        b1 == b \div 1000
        b0 == b % 1000
    IN a1 * b1 + (a1 * b0 + a0 * b1) \div 1000 + (a0 * b0) \div M6

\* radians, six decimals, of a arcseconds, 0 <= a <= 90 degrees
Rad6(a) == 4 * a + ((a \div 1000) * 848137) \div 1000 + ((a % 1000) * 848137) \div M6

\* cosine of x radians, 0 <= x <= pi/2: the power series, nested
CosR(x) ==
    LET x2 == Mul6(x, x)
        h6 == M6 - x2 \div 132
        h5 == M6 - Mul6(x2 \div 90, h6)
        h4 == M6 - Mul6(x2 \div 56, h5)
        h3 == M6 - Mul6(x2 \div 30, h4)
        h2 == M6 - Mul6(x2 \div 12, h3)
    IN M6 - Mul6(x2 \div 2, h2)

\* sine of x radians, 0 <= x <= pi/2
SinR(x) ==
    LET x2 == Mul6(x, x)
        h6 == M6 - x2 \div 156
        h5 == M6 - Mul6(x2 \div 110, h6)
        h4 == M6 - Mul6(x2 \div 72, h5)
        h3 == M6 - Mul6(x2 \div 42, h4)
        h2 == M6 - Mul6(x2 \div 20, h3)
    IN Mul6(x, M6 - Mul6(x2 \div 6, h2))

\* sine and cosine of an angle in arcseconds, any integer
Sin6(a) ==
    LET m == a % (360 * Deg)
    IN IF m <= 90 * Deg THEN SinR(Rad6(m))
       ELSE IF m <= 180 * Deg THEN SinR(Rad6(180 * Deg - m))
       ELSE IF m <= 270 * Deg THEN -SinR(Rad6(m - 180 * Deg))
       ELSE -SinR(Rad6(360 * Deg - m))

Cos6(a) == Sin6(a + 90 * Deg)

\* square root of a six-decimal value 0 <= x <= 1, by bisection
RECURSIVE Sqrt6Bisect(_, _, _)
Sqrt6Bisect(x, lo, hi) ==
    IF lo >= hi THEN lo
    ELSE LET mid == (lo + hi + 1) \div 2
         IN IF Mul6(mid, mid) <= x THEN Sqrt6Bisect(x, mid, hi)
            ELSE Sqrt6Bisect(x, lo, mid - 1)

Sqrt6(x) == Sqrt6Bisect(x, 0, M6)

\* ------------------------------------------------------------------------
\* The celestial sphere: true angular separation (astropy SkyCoord.separation)
\* ------------------------------------------------------------------------

\* distance between two angles along one great circle, in 0 .. 180 degrees
CircDist(a, b) ==
    LET d == (a - b) % (360 * Deg)
    IN Min(d, 360 * Deg - d)

\* the point lies on the great circle through the poles and longitudes 0, 180
OnMeridian(x, y) == x % (180 * Deg) = 0 \/ Abs(y) = 90 * Deg

\* position of a point of that great circle, as an angle along it
MeridianAngle(x, y) ==
    IF Abs(y) = 90 * Deg \/ x % (360 * Deg) = 0 THEN y ELSE 180 * Deg - y

\* separation of two points less than a degree apart in both coordinates:
\* the offsets along and across the parallel of the mean latitude
SmallSep(x1, y1, x2, y2) ==
    LET dy == Abs(y1 - y2)
        dx == (CircDist(x1, x2) * (Cos6((y1 + y2) \div 2) \div 100)) \div Z
    IN ISqrt(dx * dx + dy * dy)

\* great-circle separation of (x1, y1) and (x2, y2), longitude/latitude or
\* ra/dec in arcseconds; exact along the equator and along the meridian
\* circle, to the arcsecond for points less than a degree apart, the
\* spherical law of cosines to the nearest degree elsewhere
AngSep(x1, y1, x2, y2) ==
    IF y1 = 0 /\ y2 = 0 THEN CircDist(x1, x2)
    ELSE IF OnMeridian(x1, y1) /\ OnMeridian(x2, y2)
    THEN CircDist(MeridianAngle(x1, y1), MeridianAngle(x2, y2))
    ELSE IF CircDist(x1, x2) < Deg /\ Abs(y1 - y2) < Deg
    THEN SmallSep(x1, y1, x2, y2)
    ELSE LET c == (Sin(y1) * Sin(y2)
                   + ((Cos(y1) * Cos(y2)) \div Z) * Cos(x1 - x2)) \div Z
         IN ArcCosDeg(c) * Deg

\* separation of two coordinates [ra, dec]
Separation(c1, c2) == AngSep(c1.ra, c1.dec, c2.ra, c2.dec)

\* ------------------------------------------------------------------------
\* wgs_scale: metres per degree at a geodetic latitude
\* ------------------------------------------------------------------------

\* Semi-major axis of Earth, metres
WGS_a == 6378137

\* eccentricity, five decimals
WGS_e == 8182

\* np.radians(1.0), six decimals
WGS_angle == 17453

\* np.power(e, 2), six decimals
WGS_e2 == (WGS_e * WGS_e) \div 10000

\* (1 - e^2 sin^2(lat))^1.5, the denominator of rm, four decimals
wgs_denominator(lat) ==
    LET s2  == (Sin(lat) * Sin(lat)) \div Z               \* sin^2, four decimals
        y   == 1000000 - (WGS_e2 * s2) \div Z             \* 1 - e^2 sin^2, six decimals
        rt  == ISqrt(y * 100)                             \* its square root, four decimals
    IN ((y \div 100) * rt) \div Z

\* variant: the cosine of the latitude in place of its sine
wgs_scale_cos(lat) ==
    LET s2  == (Cos(lat) * Cos(lat)) \div Z
        y   == 1000000 - (WGS_e2 * s2) \div Z
        rt  == ISqrt(y * 100)
        y15 == ((y \div 100) * rt) \div Z
        num == WGS_a - ((WGS_a \div 1000) * WGS_e2) \div 1000
        rm  == (num \div y15) * Z + ((num % y15) * Z) \div y15
    IN ((rm \div 100) * WGS_angle) \div 10000

wgs_scale(lat) ==
    LET y15 == wgs_denominator(lat)
        num == WGS_a - ((WGS_a \div 1000) * WGS_e2) \div 1000   \* a * (1 - e^2)
        rm  == (num \div y15) * Z + ((num % y15) * Z) \div y15  \* radius of curvature
    IN ((rm \div 100) * WGS_angle) \div 10000             \* arc = rm * angle

\* ------------------------------------------------------------------------
\* The store's spherical geometry ($nearSphere, $geoNear with spherical: True)
\* ------------------------------------------------------------------------

\* metres per degree of arc on the store's sphere
EarthMetersPerDeg == 111319

\* the length in metres of an arc of sep arcseconds on the store's sphere
Metres(sep) ==
    (sep \div Deg) * EarthMetersPerDeg + ((sep % Deg) * EarthMetersPerDeg) \div Deg

\* variant: longitude and latitude taken as plane coordinates (a flat 2d
\* index), the longitude difference not wrapped at +-180
GeoDistancePlanar(g, h) ==
    Metres(IF Abs(g.lon - h.lon) >= Abs(g.lat - h.lat)
           THEN Abs(g.lon - h.lon) ELSE Abs(g.lat - h.lat))

\* the store's linear distance in metres between two GeoJSON points [lon, lat]
GeoDistance(g, h) == Metres(AngSep(g.lon, g.lat, h.lon, h.lat))

\* ------------------------------------------------------------------------
\* HEALPix: coordinate to pixel id (hp.skycoord_to_healpix)
\* ------------------------------------------------------------------------

RECURSIVE Interleave(_, _)
Interleave(ix, iy) ==
    IF ix = 0 /\ iy = 0 THEN 0
    ELSE (ix % 2) + 2 * (iy % 2) + 4 * Interleave(ix \div 2, iy \div 2)

\* pixel id of face f, coordinates ix, iy in the nested ordering
Xyf2Nest(nside, ix, iy, f) == f * nside * nside + Interleave(ix, iy)

\* floor(nside * v) for a six-decimal value v >= 0, in parts below 2^31
ScaleNside(nside, v) == (nside * (v \div 1000) + (nside * (v % 1000)) \div 1000) \div 1000

\* pixel id of c = [ra, dec] in the nested ordering where 12 * nside^2 is
\* beyond 32 bits: the id in two words << face, i >>, id = face * nside^2 + i;
\* z and the longitude have six decimals
skycoord_to_healpix64(c, hp) ==
    LET nside == hp.nside
        z     == Sin6(c.dec)
        za    == Abs(z)
        tt    == ((c.ra % (360 * Deg)) * 1000) \div 324      \* ra / 90 degrees
    IN IF 3 * za <= 2 * M6
       THEN LET jp   == ScaleNside(nside, 500000 + tt - (3 * z) \div 4)
                jm   == ScaleNside(nside, 500000 + tt + (3 * z) \div 4)
                ifp  == jp \div nside
                ifm  == jm \div nside
                face == IF ifp = ifm THEN (ifp % 4) + 4
                        ELSE IF ifp < ifm THEN ifp % 4
                        ELSE (ifm % 4) + 8
            IN << face, Interleave(jm % nside, nside - (jp % nside) - 1) >>
       ELSE LET ntt == Min(3, tt \div M6)
                tp  == tt - ntt * M6
                tmp == Sqrt6(3 * (M6 - za))
                jp  == Min(ScaleNside(nside, Mul6(tp, tmp)), nside - 1)
                jm  == Min(ScaleNside(nside, Mul6(M6 - tp, tmp)), nside - 1)
            IN IF z >= 0
               THEN << ntt, Interleave(nside - jm - 1, nside - jp - 1) >>
               ELSE << ntt + 8, Interleave(jp, jm) >>

\* pixel id of the coordinate c = [ra, dec] under hp = [nside, order]
skycoord_to_healpix(c, hp) ==
    IF hp.nside >= 16384 THEN skycoord_to_healpix64(c, hp) ELSE
    LET nside == hp.nside
        zs    == Sin(c.dec)                       \* z = sin(dec), four decimals
        za    == Abs(zs)
        raq   == (c.ra % (360 * Deg)) \div 900    \* ra in quarter degrees; tt = raq / 360
    IN IF 3 * za <= 2 * Z
       THEN \* equatorial region
            LET jp  == (nside * (180 * Z + raq * Z - 270 * zs)) \div (360 * Z)
                jm  == (nside * (180 * Z + raq * Z + 270 * zs)) \div (360 * Z)
            IN IF hp.order = "nested"
               THEN LET ifp  == jp \div nside
                        ifm  == jm \div nside
                        face == IF ifp = ifm THEN (ifp % 4) + 4
                                ELSE IF ifp < ifm THEN ifp % 4
                                ELSE (ifm % 4) + 8
                    IN Xyf2Nest(nside, jm % nside, nside - (jp % nside) - 1, face)
               ELSE LET ir     == nside + 1 + jp - jm
                        kshift == 1 - (ir % 2)
                        ip     == ((jp + jm - nside + kshift + 1) \div 2) % (4 * nside)
                    IN 2 * nside * (nside - 1) + (ir - 1) * 4 * nside + ip
       ELSE \* polar caps
            LET ntt == Min(3, raq \div 360)
                tpq == raq - 360 * ntt
                tmp == nside * ISqrt(3 * (Z - za) * Z)
                jp  == (tpq * tmp) \div (360 * Z)
                jm  == ((360 - tpq) * tmp) \div (360 * Z)
            IN IF hp.order = "nested"
               THEN LET jpc == Min(jp, nside - 1)
                        jmc == Min(jm, nside - 1)
                    IN IF zs >= 0
                       THEN Xyf2Nest(nside, nside - jmc - 1, nside - jpc - 1, ntt)
                       ELSE Xyf2Nest(nside, jpc, jmc, ntt + 8)
               ELSE LET ir == jp + jm + 1
                        ip == (raq * ir) \div 360
                    IN IF zs > 0 THEN 2 * ir * (ir - 1) + ip
                       ELSE 12 * nside * nside - 2 * ir * (ir + 1) + ip

\* ------------------------------------------------------------------------
\* Data: the catalog rows and the positions used in searches
\* ------------------------------------------------------------------------

\* a coordinate given in quarter degrees
Coords(raq, decq) == [ra |-> raq * 900, dec |-> decq * 900]

\* arcseconds of sign * (deg + micro / 10^6) degrees, rounded
Arcsec(sign, deg, micro) == sign * (deg * Deg + (micro * 36 + 5000) \div 10000)

\* None, the default of the J, H and Ks attributes, and JSON null
None == {}

\* Photometry(value, error): an object with unit 'mag'; magnitudes are in
\* thousandths
Photometry(value, error) ==
    { [class |-> "Photometry", value |-> value, error |-> error, unit |-> "mag"] }

\* a catalog row, BrownDwarf(source_id, coords=Coords(ra, dec), spectral_type,
\* J, H): source_id, the class letter of the spectral type, ra and dec as
\* printed in the table (whole degrees and millionths), J and H with their
\* errors; Ks is not given and keeps its default
Row(source_id, sptype, raDeg, raMicro, decSign, decDeg, decMicro, J, J_err, H, H_err) ==
    [source_id |-> source_id, spectral_type |-> sptype,
     ra |-> Arcsec(1, raDeg, raMicro), dec |-> Arcsec(decSign, decDeg, decMicro),
     J |-> Photometry(J, J_err), H |-> Photometry(H, H_err), Ks |-> None]

\* bd = BrownDwarf(source_id=11, name='1207-3932', coords=Coords(181.889, -39.548),
\* J=Photometry(12.99, 0.03), H=Photometry(12.39, 0.03), Ks=Photometry(11.95, 0.03))
bd ==
    [Row(11, "M", 181, 889000, -1, 39, 548000, 12990, 30, 12390, 30)
       EXCEPT !.Ks = Photometry(11950, 30)]

\* the rows of the bddata table
bddata ==
    << Row(2, "L", 202, 953870, -1, 1, 280556, 15460, 40, 14470, 40),
       Row(4, "L", 222, 106791, 1, 10, 533056, 14556, 34, 13433, 33),
       Row(7, "L", 219, 868167, 1, 19, 487472, 12759, 19, 12041, 19),
       Row(14, "L", 342, 472709, 1, 0, 734611, 16587, 125, 15421, 109),
       Row(15, "L", 332, 56790, 1, 29, 355972, 15797, 85, 14793, 71),
       Row(17, "M", 6, 924875, 1, 5, 61583, 16189, 93, 15288, 99),
       Row(19, "L", 327, 68041, 1, 40, 66500, 14147, 29, 12783, 30),
       Row(20, "M", 165, 540970, -1, 34, 509869, 13034, 24, 12356, 22),
       Row(32, "T", 63, 831417, -1, 9, 585167, 15695, 58, 15537, 113),
       Row(34, "T", 111, 826001, 1, 17, 167000, 15600, 61, 15756, 171),
       Row(36, "L", 72, 753833, -1, 34, 37500, 13541, 23, 12826, 23),
       Row(53, "L", 228, 753459, 1, 48, 794889, 14111, 29, 13099, 31),
       Row(61, "M", 191, 309000, -1, 44, 485477, 14518, 32, 13800, 33),
       Row(63, "M", 53, 537667, -1, 49, 893944, 11376, 23, 10823, 26),
       Row(80, "L", 238, 245910, 1, 29, 813420, 13478, 26, 12606, 26),
       Row(82, "M", 278, 907920, 1, 32, 998497, 10270, 22, 9617, 21),
       Row(83, "M", 236, 946620, -1, 24, 397028, 13970, 29, 13271, 34),
       Row(86, "L", 9, 67376, 1, 18, 352889, 12466, 27, 11588, 30),
       Row(91, "L", 79, 692333, -1, 27, 946028, 15262, 43, 14295, 46),
       Row(96, "M", 42, 170846, -1, 16, 856022, 12551, 22, 11872, 22),
       Row(98, "L", 40, 297958, -1, 3, 449639, 15799, 65, 14811, 53) >>

\* a row of the two-row catalog, its position in arcseconds
SmallRow(source_id, sptype, ra, dec) ==
    [source_id |-> source_id, spectral_type |-> sptype, ra |-> ra, dec |-> dec,
     J |-> Photometry(15460, 40), H |-> Photometry(14470, 40), Ks |-> None]

\* the `data` list of BrownDwarf rows: two releases of a two-row catalog,
\* and (release 3) the rows of bddata
Data(rel) ==
    IF rel = 3 THEN bddata ELSE
    IF rel = 1
    THEN << SmallRow(11, "M", 900,        0),
            SmallRow(2,  "L", 1439 * 900, 0) >>
    ELSE << SmallRow(11, "M", 0,          30 * Deg),
            SmallRow(2,  "L", 180 * Deg,  359 * 900) >>

Releases == {1, 2}

\* search centres: both sides of the ra 0/360 seam, the seam itself given as
\* ra 0 and as ra 360, a mid latitude, and next to the north pole
Centers ==
    { Coords(1439, 0), Coords(0, 0), Coords(1440, 0), Coords(0, 240), Coords(0, 359) }

\* search radii of the 2dsphere strategy, degrees
GeoRadii == {1, 30, 45}

\* search radii of the HEALPix strategy, arcseconds
HpRadii == {900, 1800, 1801, 3600}

\* filter queries on spectral_type: "" is the empty query {}
Queries == {"", "L", "M"}

\* the module-level HEALPix object (nested ordering), at the model's resolution
hp_global == [nside |-> 2, order |-> "nested"]

\* HEALPix objects a caller can pass as `hp`
HpConfigs == [nside : {1, 2}, order : {"nested", "ring"}]

\* the sky positions the model distinguishes
Sky ==
    Centers \cup UNION { { [ra |-> Data(rel)[i].ra, dec |-> Data(rel)[i].dec] :
                             i \in DOMAIN Data(rel) } : rel \in Releases }

\* the HEALPix object of the notebook at its resolution of 10 arcsec
hp_fixture == [nside |-> 32768, order |-> "nested"]

\* the centres of the two searches the notebooks run on the loaded table
FixtureCenters ==
    { [ra |-> 220 * Deg, dec |-> 12 * Deg],
      [ra |-> Arcsec(1, 181, 900000), dec |-> Arcsec(-1, 39, 500000)] }

\* the sky positions distinguished at that resolution: the rows and centres
FixtureSky ==
    FixtureCenters \cup { [ra |-> bd.ra, dec |-> bd.dec] }
      \cup { [ra |-> bddata[k].ra, dec |-> bddata[k].dec] : k \in DOMAIN bddata }

\* the sky positions a search with hp tells apart
SkyOf(hp) == IF hp = hp_fixture THEN FixtureSky ELSE Sky

\* variant: the pixel of the centre alone
cone_search_center_pixel(coords, radius, hp) == { skycoord_to_healpix(coords, hp) }

\* every HEALPix pixel overlapping the cone (hp.cone_search_skycoord): the
\* pixels of all sky positions within the radius of the centre
cone_search_skycoord(coords, radius, hp) ==
    { skycoord_to_healpix(g, hp) : g \in { s \in SkyOf(hp) : Separation(coords, s) <= radius } }

\* number of documents the collection can hold
MaxDocs == 3

\* documents the collection holds at most while a release is loaded: the
\* bound, or bd and every row of bddata
Capacity(rel) == IF rel = 3 THEN Len(bddata) + 1 ELSE MaxDocs

\* number of loader runs
MaxLoads == 2

\* number of runs of each derived-field build loop
MaxBuilds == 2

Loaders == {1, 2}

\* ------------------------------------------------------------------------
\* State
\* ------------------------------------------------------------------------

VARIABLES
    dwarfs,     \* the collection: _id -> document
    nextId,     \* the next _id the store hands out
    indexes,    \* the indexes of the collection, in order of creation
    fits,       \* the collection db.fits of the same database: _id -> document
    loader,     \* per loader run: position in the catalog loader loop
    locBuild,   \* position in the coords.loc build loop
    hpBuild,    \* position in the coords.healpix build loop
    loads,      \* loader runs started
    builds,     \* build loops started, per derived field
    last        \* the call made by the latest step: arguments, what was sent
                \* to the store and what came back

vars == << dwarfs, nextId, indexes, fits, loader, locBuild, hpBuild, loads, builds, last >>

Ids == 1..MaxDocs

\* a document field that is absent is the empty set, a present one a singleton
Absent == {}

\* default=lambda x: x.__dict__ on an attribute: None is written as null, an
\* object as the dictionary of its attributes
json_attribute(x) ==
    { [value |-> o.value, error |-> o.error, unit |-> o.unit] : o \in x }

\* json.loads(row.to_json()): the document of a catalog row; it has neither
\* coords.loc nor coords.healpix
to_json(row) ==
    [source_id |-> row.source_id, spectral_type |-> row.spectral_type,
     ra |-> row.ra, dec |-> row.dec,
     J |-> json_attribute(row.J), H |-> json_attribute(row.H),
     Ks |-> json_attribute(row.Ks), loc |-> Absent, healpix |-> Absent]

\* the ids of a set in ascending order (natural order of a cursor)
RECURSIVE IdSeq(_)
IdSeq(S) ==
    IF S = {} THEN << >>
    ELSE LET m == CHOOSE x \in S : \A y \in S : x <= y
         IN << m >> \o IdSeq(S \ {m})

\* the collections of the database and the field paths a caller can name
Collections == {"dwarfs", "fits"}

Fields == {"coords.loc", "coords.healpix"}

\* collection: the collection a name of the database stands for
Collection(name) == IF name = "dwarfs" THEN dwarfs ELSE fits

\* collection.index_information(): the names of the indexes of a collection
\* (db.fits carries no geosphere and no healpix index)
index_information(name) ==
    IF name = "dwarfs" THEN { indexes[k].name : k \in DOMAIN indexes } ELSE {}

\* a call: its arguments (ra .. field), what it sent to the store (target
\* collection, field path, point, maxDistance, pixels), and what came back
NoCall ==
    [op |-> "none", ra |-> 0, dec |-> 0, radius |-> 0, query |-> "", hp |-> hp_global,
     collection |-> "dwarfs", field |-> "", target |-> "", path |-> "", name |-> "",
     point |-> {}, maxDistance |-> 0, pixels |-> {}, enumerated |-> FALSE,
     sent |-> FALSE, error |-> "", result |-> << >>, ret |-> << >>]

IdleLoader == [pc |-> "idle", rel |-> 1, row |-> 1, cursor |-> << >>]

IdleBuild == [pc |-> "idle", cursor |-> << >>]

Init ==
    /\ dwarfs = << >>
    /\ nextId = 1
    /\ indexes = << >>
    /\ fits = << >>
    /\ loader = [l \in Loaders |-> IdleLoader]
    /\ locBuild = IdleBuild
    /\ hpBuild = IdleBuild
    /\ loads = 0
    /\ builds = [f \in {"loc", "healpix"} |-> 0]
    /\ last = NoCall

\* ------------------------------------------------------------------------
\* The catalog loader loop
\* ------------------------------------------------------------------------

\* the loop moves to its next row, or ends
NextRow(st) ==
    IF st.row < Len(Data(st.rel))
    THEN [pc |-> "count", rel |-> st.rel, row |-> st.row + 1, cursor |-> << >>]
    ELSE IdleLoader

\* for row in data: a run of the loader starts on one release of the catalog
LoaderStart(l, rel) ==
    /\ loader[l].pc = "idle"
    /\ loads < MaxLoads
    /\ loads' = loads + 1
    /\ loader' = [loader EXCEPT ![l] = [pc |-> "count", rel |-> rel, row |-> 1,
                                         cursor |-> << >>]]
    /\ last' = NoCall
    /\ UNCHANGED << dwarfs, nextId, indexes, locBuild, hpBuild, builds, fits >>

\* count = dwarfs.count_documents({'source_id': source_id}); if count > 0
LoaderCount(l) ==
    /\ loader[l].pc = "count"
    /\ LET row   == Data(loader[l].rel)[loader[l].row]
           count == Cardinality({ i \in DOMAIN dwarfs : dwarfs[i].source_id = row.source_id })
       IN loader' = [loader EXCEPT ![l].pc = IF count > 0 THEN "find" ELSE "insert"]
    /\ last' = NoCall
    /\ UNCHANGED << dwarfs, nextId, indexes, locBuild, hpBuild, loads, builds, fits >>

\* cursor = dwarfs.find({'source_id': source_id})
LoaderFind(l) ==
    /\ loader[l].pc = "find"
    /\ LET row == Data(loader[l].rel)[loader[l].row]
       IN loader' = [loader EXCEPT
              ![l].pc = "replace",
              ![l].cursor = IdSeq({ i \in DOMAIN dwarfs :
                                      dwarfs[i].source_id = row.source_id })]
    /\ last' = NoCall
    /\ UNCHANGED << dwarfs, nextId, indexes, locBuild, hpBuild, loads, builds, fits >>

\* for doc in cursor: dwarfs.replace_one({'_id': doc['_id']}, json_data)
LoaderReplace(l) ==
    /\ loader[l].pc = "replace"
    /\ LET st  == loader[l]
           row == Data(st.rel)[st.row]
       IN IF st.cursor = << >>
          THEN /\ loader' = [loader EXCEPT ![l] = NextRow(st)]
               /\ UNCHANGED dwarfs
          ELSE /\ dwarfs' = [dwarfs EXCEPT ![Head(st.cursor)] = to_json(row)]
               /\ loader' = [loader EXCEPT ![l].cursor = Tail(st.cursor)]
    /\ last' = NoCall
    /\ UNCHANGED << nextId, indexes, locBuild, hpBuild, loads, builds, fits >>

\* else: dwarfs.insert_one(json_data)
LoaderInsert(l) ==
    /\ loader[l].pc = "insert"
    /\ nextId <= Capacity(loader[l].rel)
    /\ LET st  == loader[l]
           row == Data(st.rel)[st.row]
       IN /\ dwarfs' = [i \in DOMAIN dwarfs \cup {nextId} |->
                          IF i = nextId THEN to_json(row) ELSE dwarfs[i]]
          /\ loader' = [loader EXCEPT ![l] = NextRow(st)]
    /\ nextId' = nextId + 1
    /\ last' = NoCall
    /\ UNCHANGED << indexes, locBuild, hpBuild, loads, builds, fits >>

\* ------------------------------------------------------------------------
\* The loops that build the derived fields
\* ------------------------------------------------------------------------

\* geojson = {'type': "Point", 'coordinates': [ra - 180., dec]} of a document
geojson(doc) == [lon |-> doc.ra - 180 * Deg, lat |-> doc.dec]

\* the documents a find() returns, as the cursor holds them
Snapshot(S) == [k \in 1..Cardinality(S) |->
                  LET i == IdSeq(S)[k]
                  IN [id |-> i, ra |-> dwarfs[i].ra, dec |-> dwarfs[i].dec]]

\* dwarfs.update_many({}, {'$unset': {'coords.loc': ''}})
LocUnset ==
    /\ locBuild.pc = "idle"
    /\ builds["loc"] < MaxBuilds
    /\ builds' = [builds EXCEPT !["loc"] = @ + 1]
    /\ dwarfs' = [i \in DOMAIN dwarfs |-> [dwarfs[i] EXCEPT !.loc = Absent]]
    /\ locBuild' = [pc |-> "find", cursor |-> << >>]
    /\ last' = NoCall
    /\ UNCHANGED << nextId, indexes, loader, hpBuild, loads, fits >>

\* cursor = dwarfs.find({'coords.loc': {'$exists': False}})
LocFind ==
    /\ locBuild.pc = "find"
    /\ locBuild' = [pc |-> "loop",
                    cursor |-> Snapshot({ i \in DOMAIN dwarfs : dwarfs[i].loc = Absent })]
    /\ last' = NoCall
    /\ UNCHANGED << dwarfs, nextId, indexes, loader, hpBuild, loads, builds, fits >>

\* variant: the update document is given without '$set', so the store
\* replaces the document's other derived field along with it
LocUpdateReplacing ==
    /\ locBuild.pc = "loop"
    /\ IF locBuild.cursor = << >>
       THEN /\ locBuild' = IdleBuild
            /\ last' = NoCall
            /\ UNCHANGED dwarfs
       ELSE LET doc == Head(locBuild.cursor)
            IN /\ dwarfs' = [dwarfs EXCEPT ![doc.id].loc = {geojson(doc)},
                                           ![doc.id].healpix = Absent]
               /\ locBuild' = [locBuild EXCEPT !.cursor = Tail(@)]
               /\ last' = [NoCall EXCEPT !.op = "update_loc", !.ra = doc.ra,
                                         !.dec = doc.dec, !.point = {geojson(doc)}]
    /\ UNCHANGED << nextId, indexes, loader, hpBuild, loads, builds, fits >>

\* for doc in cursor: dwarfs.update_one({'_id': doc['_id']}, {'$set': {'coords.loc': geojson}})
LocUpdate ==
    /\ locBuild.pc = "loop"
    /\ IF locBuild.cursor = << >>
       THEN /\ locBuild' = IdleBuild
            /\ last' = NoCall
            /\ UNCHANGED dwarfs
       ELSE LET doc == Head(locBuild.cursor)
            IN /\ dwarfs' = [dwarfs EXCEPT ![doc.id].loc = {geojson(doc)}]
               /\ locBuild' = [locBuild EXCEPT !.cursor = Tail(@)]
               /\ last' = [NoCall EXCEPT !.op = "update_loc", !.ra = doc.ra,
                                         !.dec = doc.dec, !.point = {geojson(doc)}]
    /\ UNCHANGED << nextId, indexes, loader, hpBuild, loads, builds, fits >>

\* dwarfs.update_many({}, {'$unset': {'coords.healpix': ''}})
HpUnset ==
    /\ hpBuild.pc = "idle"
    /\ builds["healpix"] < MaxBuilds
    /\ builds' = [builds EXCEPT !["healpix"] = @ + 1]
    /\ dwarfs' = [i \in DOMAIN dwarfs |-> [dwarfs[i] EXCEPT !.healpix = Absent]]
    /\ hpBuild' = [pc |-> "find", cursor |-> << >>]
    /\ last' = NoCall
    /\ UNCHANGED << nextId, indexes, loader, locBuild, loads, fits >>

\* cursor = dwarfs.find({'coords.healpix': {'$exists': False}})
HpFind ==
    /\ hpBuild.pc = "find"
    /\ hpBuild' = [pc |-> "loop",
                   cursor |-> Snapshot({ i \in DOMAIN dwarfs : dwarfs[i].healpix = Absent })]
    /\ last' = NoCall
    /\ UNCHANGED << dwarfs, nextId, indexes, loader, locBuild, loads, builds, fits >>

\* for doc in cursor: healpix = int(hp.skycoord_to_healpix(coords));
\* dwarfs.update_one({'_id': doc['_id']}, {'$set': {'coords.healpix': healpix}})
HpUpdateWith(hp) ==
    /\ hpBuild.pc = "loop"
    /\ IF hpBuild.cursor = << >>
       THEN /\ hpBuild' = IdleBuild
            /\ last' = NoCall
            /\ UNCHANGED dwarfs
       ELSE LET doc     == Head(hpBuild.cursor)
                healpix == skycoord_to_healpix([ra |-> doc.ra, dec |-> doc.dec], hp)
            IN /\ dwarfs' = [dwarfs EXCEPT ![doc.id].healpix = {healpix}]
               /\ hpBuild' = [hpBuild EXCEPT !.cursor = Tail(@)]
               /\ last' = [NoCall EXCEPT !.op = "update_healpix", !.ra = doc.ra,
                                         !.dec = doc.dec, !.pixels = {healpix}]
    /\ UNCHANGED << nextId, indexes, loader, locBuild, loads, builds, fits >>

\* the loop with the module-level hp, at the model's resolution
HpUpdate == HpUpdateWith(hp_global)

\* variant: the index is stored under a name made by the store, not the
\* name given
create_index_default_name(idx, key, name) ==
    IF \E k \in DOMAIN idx : idx[k] = [name |-> "default", key |-> key]
    THEN idx
    ELSE Append(idx, [name |-> "default", key |-> key])

\* dwarfs.create_index([(key, kind)], name=name): the store adds the index
\* unless one of that name and key exists already
create_index(idx, key, name) ==
    IF \E k \in DOMAIN idx : idx[k] = [name |-> name, key |-> key]
    THEN idx
    ELSE Append(idx, [name |-> name, key |-> key])

\* if 'geosphere' not in dwarfs.index_information(): dwarfs.create_index(...)
CreateGeosphereIndex ==
    /\ indexes' = IF "geosphere" \notin index_information("dwarfs")
                  THEN create_index(indexes, "coords.loc", "geosphere")
                  ELSE indexes
    /\ last' = [NoCall EXCEPT !.op = "create_index", !.path = "coords.loc",
                              !.name = "geosphere"]
    /\ UNCHANGED << dwarfs, nextId, loader, locBuild, hpBuild, loads, builds, fits >>

\* if 'healpix' not in dwarfs.index_information(): dwarfs.create_index(...)
CreateHealpixIndex ==
    /\ indexes' = IF "healpix" \notin index_information("dwarfs")
                  THEN create_index(indexes, "coords.healpix", "healpix")
                  ELSE indexes
    /\ last' = [NoCall EXCEPT !.op = "create_index", !.path = "coords.healpix",
                              !.name = "healpix"]
    /\ UNCHANGED << dwarfs, nextId, loader, locBuild, hpBuild, loads, builds, fits >>

\* ------------------------------------------------------------------------
\* Cone searches with the 2dsphere index
\* ------------------------------------------------------------------------

\* variant: one length of a degree for every latitude
meter_radius_unscaled(radius, dec) == radius * EarthMetersPerDeg

\* scaling = wgs_scale(dec); meter_radius = radius * scaling
meter_radius(radius, dec) == radius * wgs_scale(dec)

\* variant: the right ascension used as the longitude
lon_lat_unshifted(ra, dec) == [lon |-> ra, lat |-> dec]

\* variant: the longitude wrapped into [-180, 180)
lon_lat_wrapped(ra, dec) ==
    [lon |-> (ra % (360 * Deg)) - 180 * Deg, lat |-> dec]

\* lon, lat = ra - 180., dec
lon_lat(ra, dec) == [lon |-> ra - 180 * Deg, lat |-> dec]

\* a document satisfies the filter query on spectral_type ($regex)
Matches(doc, query) == query = "" \/ doc.spectral_type = query

\* doc['distance'] / wgs_scale(doc['coords']['dec']): the distance reported
\* in degrees, two decimals
distance_degrees(distance, doc) == (distance * 100) \div wgs_scale(doc.dec)

\* variant: entries in the natural order of the collection
RECURSIVE SortNatural(_)
SortNatural(S) ==
    IF S = {} THEN << >>
    ELSE LET m == CHOOSE x \in S : \A y \in S : x.id <= y.id
         IN << m >> \o SortNatural(S \ {m})

\* entries [id, distance] in ascending order of distance
RECURSIVE SortNear(_)
SortNear(S) ==
    IF S = {} THEN << >>
    ELSE LET m == CHOOSE x \in S : \A y \in S :
                     x.distance < y.distance \/ (x.distance = y.distance /\ x.id <= y.id)
         IN << m >> \o SortNear(S \ {m})

\* the store's near query: the documents that match the filter and whose
\* coords.loc lies within maxDistance metres of the point, nearest first,
\* each with its distance
NearSphere(coll, point, maxDistance, query) ==
    SortNear({ [id |-> i, distance |-> GeoDistance(CHOOSE g \in coll[i].loc : TRUE, point),
                degrees |-> 0] :
               i \in { j \in DOMAIN coll : /\ coll[j].loc # Absent
                                          /\ Matches(coll[j], query)
                                          /\ GeoDistance(CHOOSE g \in coll[j].loc : TRUE, point)
                                               <= maxDistance } })

\* the store's answer to a near query it cannot run: no 2dsphere index on the
\* collection, a point off the sphere, or a negative maximum distance
GeoError(target, point, maxDistance) ==
    IF "geosphere" \notin index_information(target) THEN "OperationFailure"
    ELSE IF Abs(point.lat) > 90 * Deg \/ Abs(point.lon) > 180 * Deg THEN "OperationFailure"
    ELSE IF maxDistance < 0 THEN "OperationFailure"
    ELSE ""

\* variant: a search that first sets coords.loc on the documents lacking it
cone_search_filling(ra, dec, radius, collection, field) ==
    LET point  == lon_lat(ra, dec)
        filled == [i \in DOMAIN dwarfs |->
                     IF dwarfs[i].loc = Absent
                     THEN [dwarfs[i] EXCEPT !.loc = {geojson(dwarfs[i])}]
                     ELSE dwarfs[i]]
        call   == [NoCall EXCEPT !.op = "cone_search", !.ra = ra, !.dec = dec,
                                 !.radius = radius, !.point = {point},
                                 !.collection = collection, !.field = field,
                                 !.target = collection, !.path = "coords.loc",
                                 !.maxDistance = meter_radius(radius, dec), !.sent = TRUE]
        error  == GeoError(call.target, point, call.maxDistance)
    IN /\ dwarfs' = filled
       /\ last' = IF error # ""
                  THEN [call EXCEPT !.error = error]
                  ELSE [call EXCEPT !.result =
                            NearSphere(IF collection = "dwarfs" THEN filled ELSE fits,
                                       point, call.maxDistance, "")]
       /\ UNCHANGED << nextId, indexes, loader, locBuild, hpBuild, loads, builds, fits >>

\* cone_search(ra, dec, radius, collection, field) of the spatial notebook:
\* collection.find with $nearSphere on 'coords.loc'
cone_search(ra, dec, radius, collection, field) ==
    LET point == lon_lat(ra, dec)
        call  == [NoCall EXCEPT !.op = "cone_search", !.ra = ra, !.dec = dec,
                                !.radius = radius, !.point = {point},
                                !.collection = collection, !.field = field,
                                !.target = collection, !.path = "coords.loc",
                                !.maxDistance = meter_radius(radius, dec), !.sent = TRUE]
        error == GeoError(call.target, point, call.maxDistance)
    IN /\ last' = IF error # ""
                  THEN [call EXCEPT !.error = error]
                  ELSE [call EXCEPT !.result =
                            NearSphere(Collection(call.target), point, call.maxDistance, "")]
       /\ UNCHANGED << dwarfs, nextId, indexes, loader, locBuild, hpBuild, loads, builds, fits >>

\* cone_search_advanced(ra, dec, radius, query, collection, field):
\* dwarfs.aggregate with $geoNear (the index on coords.loc), then the caller's
\* loop that prints each distance converted back to degrees
cone_search_advanced(ra, dec, radius, query, collection, field) ==
    LET point == lon_lat(ra, dec)
        call  == [NoCall EXCEPT !.op = "cone_search_advanced", !.ra = ra, !.dec = dec,
                                !.radius = radius, !.query = query, !.point = {point},
                                !.collection = collection, !.field = field,
                                !.target = "dwarfs", !.path = "coords.loc",
                                !.maxDistance = meter_radius(radius, dec), !.sent = TRUE]
        error == GeoError(call.target, point, call.maxDistance)
    IN /\ last' = IF error # ""
                  THEN [call EXCEPT !.error = error]
                  ELSE LET near == NearSphere(Collection(call.target), point,
                                              call.maxDistance, query)
                       IN [call EXCEPT !.result =
                            [k \in DOMAIN near |->
                               [near[k] EXCEPT !.degrees =
                                   distance_degrees(near[k].distance, dwarfs[near[k].id])]]]
       /\ UNCHANGED << dwarfs, nextId, indexes, loader, locBuild, hpBuild, loads, builds, fits >>

\* ------------------------------------------------------------------------
\* Cone search with HEALPix pixel ids
\* ------------------------------------------------------------------------

\* largest radius the HEALPix cone_search accepts, arcseconds
MaxRadius == 1800

\* variant: a radius equal to the cap is refused as well
cone_search_error_at_cap(radius, hp) == IF radius >= MaxRadius THEN "RuntimeError" ELSE ""

\* if radius > 1800.: raise RuntimeError(...)
cone_search_error(radius, hp) == IF radius > MaxRadius THEN "RuntimeError" ELSE ""

\* variant: the longitude shift of the 2dsphere notebook applied to the centre
hp_to_search_shifted(ra, dec, radius, hp) ==
    cone_search_skycoord([ra |-> (ra + 180 * Deg) % (360 * Deg), dec |-> dec], radius, hp)

\* coords = SkyCoord(ra, dec); hp_to_search = hp.cone_search_skycoord(coords, radius)
hp_to_search(ra, dec, radius, hp) ==
    cone_search_skycoord([ra |-> ra, dec |-> dec], radius, hp)

\* collection.find({'coords.healpix': {'$in': pixels}}), in natural order
FindIn(coll, pixels) ==
    LET ids == IdSeq({ i \in DOMAIN coll : /\ "healpix" \in DOMAIN coll[i]
                                           /\ coll[i].healpix # Absent
                                           /\ coll[i].healpix \subseteq pixels })
    IN [k \in DOMAIN ids |-> [id |-> ids[k], distance |-> 0, degrees |-> 0]]

\* SkyCoord(ra=ra*u.deg, dec=dec*u.deg): a latitude outside [-90, 90] raises
SkyCoordError(ra, dec) == IF Abs(dec) > 90 * Deg THEN "ValueError" ELSE ""

\* cone_search(ra, dec, radius, collection, field, hp) of the HEALPix notebook
cone_search_healpix(ra, dec, radius, collection, field, hp) ==
    LET call  == [NoCall EXCEPT !.op = "cone_search_healpix", !.ra = ra, !.dec = dec,
                                !.radius = radius, !.hp = hp,
                                !.collection = collection, !.field = field]
        error == IF cone_search_error(radius, hp) # ""
                 THEN cone_search_error(radius, hp)
                 ELSE SkyCoordError(ra, dec)
    IN /\ last' = IF error # ""
                  THEN [call EXCEPT !.error = error]
                  ELSE LET pixels == hp_to_search(ra, dec, radius, hp)
                       IN [call EXCEPT !.pixels = pixels, !.enumerated = TRUE,
                                       !.sent = TRUE, !.target = collection,
                                       !.path = "coords.healpix",
                                       !.result = FindIn(Collection(collection), pixels)]
       /\ UNCHANGED << dwarfs, nextId, indexes, loader, locBuild, hpBuild, loads, builds, fits >>

\* ------------------------------------------------------------------------
\* Specifications
\* ------------------------------------------------------------------------

SearchOps == {"cone_search", "cone_search_advanced", "cone_search_healpix"}

\* A search only reads: made right after another search it reaches the state
\* it reaches when made first, so searches are taken after the other steps.
AfterWrite == last.op \notin SearchOps

\* one run of the catalog loader at a time
LoaderStep(l) ==
    \/ \E rel \in Releases : LoaderStart(l, rel)
    \/ LoaderCount(l)
    \/ LoaderFind(l)
    \/ LoaderReplace(l)
    \/ LoaderInsert(l)

\* the spatial-queries notebook beside the loader
NextGeo ==
    \/ LoaderStep(1)
    \/ LocUnset
    \/ LocFind
    \/ LocUpdate
    \/ CreateGeosphereIndex
    \/ \E c \in Centers, radius \in GeoRadii :
          AfterWrite /\ cone_search(c.ra, c.dec, radius, "dwarfs", "coords.loc")
    \/ \E c \in Centers, radius \in GeoRadii, query \in Queries :
          AfterWrite /\ cone_search_advanced(c.ra, c.dec, radius, query, "dwarfs", "coords.loc")

SpecGeo == Init /\ [][NextGeo]_vars

\* the HEALPix notebook beside the loader
NextHp ==
    \/ LoaderStep(1)
    \/ HpUnset
    \/ HpFind
    \/ HpUpdate
    \/ \E c \in Centers, radius \in HpRadii, hp \in HpConfigs :
          AfterWrite /\ cone_search_healpix(c.ra, c.dec, radius, "dwarfs", "coords.healpix", hp)

SpecHp == Init /\ [][NextHp]_vars

\* the loader and both build loops, their store calls interleaved
NextBuild ==
    \/ LoaderStep(1)
    \/ LocUnset
    \/ LocFind
    \/ LocUpdate
    \/ HpUnset
    \/ HpFind
    \/ HpUpdate

SpecBuild == Init /\ [][NextBuild]_vars

\* ------------------------------------------------------------------------
\* Properties of the 2dsphere strategy (SpecGeo)
\* ------------------------------------------------------------------------

GeoSearch == last.op \in {"cone_search", "cone_search_advanced"}

\* the ids a search returned
ResultIds == { last.result[k].id : k \in DOMAIN last.result }

\* the stored geometry of document i
LocOf(i) == CHOOSE g \in dwarfs[i].loc : TRUE

\* C1: the distance in degrees reported for every record returned by the
\* distance-annotated near query is the store's linear distance divided by
\* the scale factor at the latitude of the search centre (not at the latitude
\* of the record).
C1_DistanceScaledAtCenter ==
    last.op = "cone_search_advanced" =>
        \A k \in DOMAIN last.result :
            last.result[k].degrees
                = (last.result[k].distance * 100) \div wgs_scale(last.dec)

\* C2: the max distance sent to the store by cone_search and
\* cone_search_advanced is the angular radius times wgs_scale at the
\* declination of the search centre: a function of centre and radius alone,
\* whatever records are stored.
C2_MaxDistanceAtCenter ==
    GeoSearch => /\ last.sent
                 /\ last.maxDistance = last.radius * wgs_scale(last.dec)

\* C2 witness: a search centred at declination 60 was sent while a record at
\* another latitude is stored, and it returned that record
C2_Witness ==
    /\ GeoSearch
    /\ last.dec = 60 * Deg
    /\ \E i \in ResultIds : dwarfs[i].dec # last.dec

\* C3: for ra in [0, 360) and dec in [-90, 90] the point built for the stored
\* geometry coords.loc and the point built for a cone search are both
\* (ra - 180, dec), with the longitude in [-180, 180) and the latitude in
\* [-90, 90].
C3_LonLat ==
    /\ (last.op = "update_loc" \/ GeoSearch)
         /\ 0 <= last.ra /\ last.ra < 360 * Deg
         /\ -90 * Deg <= last.dec /\ last.dec <= 90 * Deg
       => /\ last.point = {[lon |-> last.ra - 180 * Deg, lat |-> last.dec]}
          /\ \A g \in last.point : /\ -180 * Deg <= g.lon /\ g.lon < 180 * Deg
                                   /\ -90 * Deg <= g.lat /\ g.lat <= 90 * Deg
    /\ \A i \in DOMAIN dwarfs : \A g \in dwarfs[i].loc :
          /\ -180 * Deg <= g.lon /\ g.lon < 180 * Deg
          /\ -90 * Deg <= g.lat /\ g.lat <= 90 * Deg
    /\ last.op = "update_loc" =>
          \E i \in DOMAIN dwarfs : dwarfs[i].loc = last.point

\* C3 witness: a search centred at ra 359.75 was made over a collection that
\* holds a built geometry of a record at ra 0.25
C3_Witness ==
    /\ GeoSearch
    /\ last.ra = 1439 * 900
    /\ last.point = {[lon |-> 179 * Deg + 2700, lat |-> 0]}
    /\ \E i \in DOMAIN dwarfs :
          dwarfs[i].ra = 900 /\ dwarfs[i].loc = {[lon |-> -180 * Deg + 900, lat |-> 0]}

\* C4 as stated: ra = 0 and ra = 360 are converted to the same longitude,
\* lon = -180.
C4_SameLongitude ==
    GeoSearch /\ last.ra \in {0, 360 * Deg}
        => last.point = {[lon |-> -180 * Deg, lat |-> last.dec]}

\* C4 amended: ra = 0 is converted to lon = -180 and ra = 360 to lon = +180,
\* two longitudes of one meridian, at distance 0 from each other for the
\* store.
C4_SeamLongitudes ==
    GeoSearch =>
        /\ last.ra = 0 => last.point = {[lon |-> -180 * Deg, lat |-> last.dec]}
        /\ last.ra = 360 * Deg => last.point = {[lon |-> 180 * Deg, lat |-> last.dec]}
        /\ last.ra \in {0, 360 * Deg} =>
              \A g \in last.point :
                  Metres(AngSep(g.lon, g.lat, -180 * Deg, last.dec)) = 0

\* C4 witness: a search centred at ra = 360 returned a record stored at
\* longitude -180 + 0.25
C4_Witness ==
    /\ GeoSearch
    /\ last.ra = 360 * Deg
    /\ \E i \in ResultIds : dwarfs[i].loc = {[lon |-> -180 * Deg + 900, lat |-> 0]}

HpSearch == last.op = "cone_search_healpix"

\* the stored pixel id of document i
HealpixOf(i) == CHOOSE p \in dwarfs[i].healpix : TRUE

\* C6: a HEALPix cone_search with a radius above the 1800 arcsec cap fails
\* before any pixel is enumerated and before the store is queried, and a
\* radius equal to the cap is accepted.
C6_RadiusCap ==
    HpSearch =>
        /\ last.radius > MaxRadius =>
              /\ last.error = "RuntimeError"
              /\ ~last.enumerated /\ ~last.sent
              /\ last.pixels = {} /\ last.result = << >>
        /\ last.radius = MaxRadius =>
              /\ last.error = ""
              /\ last.enumerated /\ last.sent

\* C6 witness: over a collection with built pixel ids, a search centred on a
\* record with a radius above the cap failed
C6_Witness ==
    /\ HpSearch
    /\ last.radius > MaxRadius
    /\ last.error = "RuntimeError"
    /\ \E i \in DOMAIN dwarfs :
          /\ dwarfs[i].healpix # Absent
          /\ Separation(dwarfs[i], [ra |-> last.ra, dec |-> last.dec]) <= last.radius

\* C7: a pixel cone search evaluated with a HEALPix configuration different
\* from the one that populated coords.healpix reports an error instead of
\* silently returning an empty result.
C7_ConfigMismatchDetected ==
    /\ HpSearch
    /\ last.hp # hp_global
    /\ last.radius <= MaxRadius
    /\ \E i \in DOMAIN dwarfs : dwarfs[i].healpix # Absent
    => last.error # ""

C10_DerivedFieldsCurrent ==
    \A i \in DOMAIN dwarfs :
        /\ dwarfs[i].loc # Absent => dwarfs[i].loc = {geojson(dwarfs[i])}
        /\ dwarfs[i].healpix # Absent
              => dwarfs[i].healpix = {skycoord_to_healpix(dwarfs[i], hp_global)}

\* ------------------------------------------------------------------------
\* Properties of the catalog loader (SpecLoad)
\* ------------------------------------------------------------------------

\* two runs of the catalog loader, their store calls interleaved
NextLoad == \E l \in Loaders : LoaderStep(l)

SpecLoad == Init /\ [][NextLoad]_vars

\* C11: after any sequence of loader runs, two interleaved runs included,
\* the collection holds at most one document per source_id.
C11_SourceIdUnique ==
    \A i, j \in DOMAIN dwarfs :
        dwarfs[i].source_id = dwarfs[j].source_id => i = j

\* ------------------------------------------------------------------------
\* Properties of the arguments of the cone searches (SpecCalls)
\* ------------------------------------------------------------------------

\* centres of calls with explicit arguments: a legal one and one with a
\* declination of 91 degrees
CallCenters == { Coords(0, 0), Coords(0, 364) }

\* radii of calls with explicit arguments: negative, zero and positive
CallGeoRadii == {-1, 0, 45}

CallHpRadii == {-1, 0, 1800}

\* no loop of a notebook is under way
AllIdle == loader[1].pc = "idle" /\ locBuild.pc = "idle" /\ hpBuild.pc = "idle"

\* the notebooks' cells run one after another in one kernel: a cell starts
\* when no other is under way; the searches are called with every collection
\* and field path
NextCalls ==
    \/ \E rel \in Releases : AllIdle /\ LoaderStart(1, rel)
    \/ LoaderCount(1)
    \/ LoaderFind(1)
    \/ LoaderReplace(1)
    \/ LoaderInsert(1)
    \/ AllIdle /\ LocUnset
    \/ LocFind
    \/ LocUpdate
    \/ AllIdle /\ HpUnset
    \/ HpFind
    \/ HpUpdate
    \/ AllIdle /\ CreateGeosphereIndex
    \/ \E c \in CallCenters, radius \in CallGeoRadii,
          collection \in Collections, field \in Fields :
          AllIdle /\ AfterWrite /\ cone_search(c.ra, c.dec, radius, collection, field)
    \/ \E c \in CallCenters, radius \in CallGeoRadii,
          collection \in Collections, field \in Fields :
          AllIdle /\ AfterWrite
                  /\ cone_search_advanced(c.ra, c.dec, radius, "M", collection, field)
    \/ \E c \in CallCenters, radius \in CallHpRadii,
          collection \in Collections, field \in Fields :
          AllIdle /\ AfterWrite
                  /\ cone_search_healpix(c.ra, c.dec, radius, collection, field, hp_global)

SpecCalls == Init /\ [][NextCalls]_vars

AnySearch == last.op \in SearchOps

\* C12: each cone search queries the collection and the field path it was
\* given as `collection` and `field`, never the module-level dwarfs collection
\* or a fixed field name.
C12_QueriesItsArguments ==
    AnySearch /\ last.sent =>
        /\ last.target = last.collection
        /\ last.path = last.field

\* C14: a cone search with a zero or negative radius is rejected by both
\* strategies: nothing is sent to the store and no pixel is enumerated.
C14_NonPositiveRadiusRejected ==
    AnySearch /\ last.radius <= 0 =>
        /\ last.error # ""
        /\ ~last.sent
        /\ ~last.enumerated

\* C15: a cone search whose centre has a declination outside [-90, 90] fails
\* before any query is made for it.
C15_InvalidDecRejected ==
    AnySearch /\ Abs(last.dec) > 90 * Deg =>
        /\ last.error # ""
        /\ ~last.sent

\* ------------------------------------------------------------------------
\* Properties of the filtered near query (SpecGeo)
\* ------------------------------------------------------------------------

\* the documents of dwarfs whose stored geometry lies within the maximum
\* distance sent by the latest search and that satisfy its filter
InRange ==
    { i \in DOMAIN dwarfs :
        /\ dwarfs[i].loc # Absent
        /\ Matches(dwarfs[i], last.query)
        /\ Metres(AngSep(LocOf(i).lon, LocOf(i).lat, last.ra - 180 * Deg, last.dec))
             <= last.radius * wgs_scale(last.dec) }

\* C13: cone_search_advanced returns exactly the stored records that satisfy
\* the caller's filter and lie within the scaled maximum distance of the
\* centre, each once, in non-decreasing order of linear distance.
C13_FilteredAndSorted ==
    last.op = "cone_search_advanced" /\ last.error = "" =>
        /\ ResultIds = InRange
        /\ Len(last.result) = Cardinality(InRange)
        /\ \A k \in DOMAIN last.result :
              last.result[k].distance
                 = Metres(AngSep(LocOf(last.result[k].id).lon, LocOf(last.result[k].id).lat,
                                 last.ra - 180 * Deg, last.dec))
        /\ \A k, n \in DOMAIN last.result :
              k < n => last.result[k].distance <= last.result[n].distance

\* C13 witness: a search filtered on M returned the M record and left out an
\* L record in range
C13_Witness ==
    /\ last.op = "cone_search_advanced" /\ last.error = ""
    /\ last.query = "M"
    /\ Len(last.result) = 1
    /\ \E i \in DOMAIN dwarfs :
          /\ dwarfs[i].spectral_type = "L" /\ dwarfs[i].loc # Absent
          /\ Metres(AngSep(LocOf(i).lon, LocOf(i).lat, last.ra - 180 * Deg, last.dec))
               <= last.maxDistance

\* ------------------------------------------------------------------------
\* Properties of wgs_scale (SpecScale)
\* ------------------------------------------------------------------------

\* the latitudes of [-90, 90], by whole degrees
Latitudes == { d * Deg : d \in -90..90 }

\* a call of wgs_scale(lat)
wgs_scale_call(lat) ==
    /\ last' = [NoCall EXCEPT !.op = "wgs_scale", !.dec = lat, !.ret = << wgs_scale(lat) >>]
    /\ UNCHANGED << dwarfs, nextId, indexes, fits, loader, locBuild, hpBuild, loads, builds >>

NextScale == \E lat \in Latitudes : wgs_scale_call(lat)

SpecScale == Init /\ [][NextScale]_vars

\* C16: wgs_scale is defined at every latitude of [-90, 90] (the denominator
\* is not zero) and does not decrease as |lat| grows: it is smallest at the
\* equator and largest at the poles.
C16_ScaleMonotone ==
    last.op = "wgs_scale" =>
        /\ wgs_denominator(last.dec) > 0
        /\ \A lat \in Latitudes :
              Abs(lat) <= Abs(last.dec) => wgs_scale(lat) <= last.ret[1]
        /\ wgs_scale(0) <= last.ret[1]
        /\ last.ret[1] <= wgs_scale(90 * Deg)

\* C16 witness: the scale at the pole was computed and exceeds the one at the
\* equator
C16_Witness ==
    /\ last.op = "wgs_scale"
    /\ last.dec = 90 * Deg
    /\ last.ret[1] > wgs_scale(0)

\* ------------------------------------------------------------------------
\* The resolution of the HEALPix object (SpecNside)
\* ------------------------------------------------------------------------

\* hp.pixel_resolution times nside, in thousandths of an arcsecond: the
\* square root of a twelfth of the sphere (6.441537022 arcsec at nside 32768)
ResolutionScale == 211076285

\* requested resolutions, arcseconds
Resolutions == 7..130

\* variant: round='down', the largest power of two whose pixels are not
\* finer than the resolution
RECURSIVE NsideDown(_, _)
NsideDown(resolution, n) ==
    IF 2 * n * resolution * 1000 > ResolutionScale THEN n
    ELSE NsideDown(resolution, 2 * n)

pixel_resolution_to_nside_down(resolution) == NsideDown(resolution, 1)

\* 2 ** ceil(log2(nside)) for the nside whose resolution is the one asked:
\* the powers of two are tried in ascending order
RECURSIVE NsideUp(_, _)
NsideUp(resolution, n) ==
    IF n * resolution * 1000 >= ResolutionScale THEN n
    ELSE NsideUp(resolution, 2 * n)

\* pixel_resolution_to_nside(resolution, round='up')
pixel_resolution_to_nside(resolution) == NsideUp(resolution, 1)

\* hp.npix = 12 * nside^2, as << millions, units below a million >>
npix(nside) ==
    LET sq == nside * nside
        lo == 12 * (sq % 1000000)
    IN << 12 * (sq \div 1000000) + lo \div 1000000, lo % 1000000 >>

\* nside = pixel_resolution_to_nside(resolution, round='up');
\* hp = HEALPix(nside=nside, order='nested', frame=ICRS()); hp.npix
hp_setup(resolution) ==
    /\ LET nside == pixel_resolution_to_nside(resolution)
       IN last' = [NoCall EXCEPT !.op = "HEALPix", !.radius = resolution,
                                 !.hp = [nside |-> nside, order |-> "nested"],
                                 !.ret = << nside >> \o npix(nside)]
    /\ UNCHANGED << dwarfs, nextId, indexes, fits, loader, locBuild, hpBuild, loads, builds >>

NextNside == \E resolution \in Resolutions : hp_setup(resolution)

SpecNside == Init /\ [][NextNside]_vars

\* a number << millions, units >> times four
Times4(x) == << 4 * x[1] + (4 * x[2]) \div 1000000, (4 * x[2]) % 1000000 >>

\* 3 * 4^k
RECURSIVE ThreeTimesPow4(_)
ThreeTimesPow4(k) == IF k = 0 THEN << 0, 3 >> ELSE Times4(ThreeTimesPow4(k - 1))

\* C17: the chosen nside is a power of two, the smallest one whose pixel
\* resolution is at most the requested resolution (the next coarser one has a
\* resolution above it), and the pixel count is 12 * nside^2; at 10 arcsec
\* nside is 32768 and there are 12884901888 pixels.
C17_NsideRoundsUp ==
    last.op = "HEALPix" =>
        LET nside == last.ret[1]
        IN /\ \E k \in 0..15 : /\ nside = 2^k
                               /\ << last.ret[2], last.ret[3] >> = ThreeTimesPow4(k + 1)
           /\ ResolutionScale \div nside <= last.radius * 1000
           /\ nside > 1 => ResolutionScale > (nside \div 2) * last.radius * 1000
           /\ last.radius = 10 => last.ret = << 32768, 12884, 901888 >>

\* C17 witness: the set-up at 10 arcsec
C17_Witness ==
    /\ last.op = "HEALPix"
    /\ last.radius = 10
    /\ last.hp.nside = 32768
    /\ last.ret[2] = 12884 /\ last.ret[3] = 901888

\* ------------------------------------------------------------------------
\* Pixel id to coordinate (hp.healpix_to_lonlat) and the round trip
\* (SpecRound), with the six-decimal sines and cosines.
\* ------------------------------------------------------------------------

\* the largest angle in lo..hi arcseconds whose sine is at most z
RECURSIVE ArcSinBisect(_, _, _)
ArcSinBisect(z, lo, hi) ==
    IF lo >= hi THEN lo
    ELSE LET mid == (lo + hi + 1) \div 2
         IN IF Sin6(mid) <= z THEN ArcSinBisect(z, mid, hi)
            ELSE ArcSinBisect(z, lo, mid - 1)

\* arcseconds of the angle in [-90, 90] degrees whose sine is z
ArcSin6(z) ==
    IF z >= 0 THEN ArcSinBisect(z, 0, 90 * Deg) ELSE -ArcSinBisect(-z, 0, 90 * Deg)

\* cosine of the separation of two coordinates [ra, dec]
CosSeparation6(c1, c2) ==
    Mul6(Sin6(c1.dec), Sin6(c2.dec))
      + Mul6(Mul6(Cos6(c1.dec), Cos6(c2.dec)), Cos6(c1.ra - c2.ra))

\* c1.separation(c2) <= angle, for an angle of 0 .. 180 degrees in arcseconds
SeparationAtMost(c1, c2, angle) == CosSeparation6(c1, c2) >= Cos6(angle)

\* the bits of p at even positions (x) or, for p \div 2, odd positions (y)
RECURSIVE Compress(_)
Compress(p) == IF p = 0 THEN 0 ELSE (p % 2) + 2 * Compress(p \div 4)

\* ring number (from the north) of the southernmost corner of each base
\* pixel, in units of nside, and its longitude index
Jrll == << 2, 2, 2, 2, 3, 3, 3, 3, 4, 4, 4, 4 >>

Jpll == << 1, 3, 5, 7, 0, 2, 4, 6, 1, 3, 5, 7 >>

\* the place of pixel p on the sphere: ring jr counted from the north pole,
\* the number nr of pixels per quadrant on that ring, and twice the
\* longitude in units of 90 / nr degrees
Pix2Loc(p, hp) ==
    LET nside == hp.nside
        ncap  == 2 * nside * (nside - 1)
        total == 12 * nside * nside
    IN IF hp.order = "nested"
       THEN LET face   == p \div (nside * nside)
                low    == p % (nside * nside)
                ix     == Compress(low)
                iy     == Compress(low \div 2)
                jr     == Jrll[face + 1] * nside - ix - iy - 1
                nr     == IF jr < nside THEN jr
                          ELSE IF jr > 3 * nside THEN 4 * nside - jr ELSE nside
                kshift == IF jr < nside \/ jr > 3 * nside THEN 0 ELSE (jr - nside) % 2
                jp0    == (Jpll[face + 1] * nr + ix - iy + 1 + kshift) \div 2
                jp     == IF jp0 > 4 * nr THEN jp0 - 4 * nr
                          ELSE IF jp0 < 1 THEN jp0 + 4 * nr ELSE jp0
            IN [jr |-> jr, nr |-> nr, phi2 |-> 2 * jp - kshift - 1]
       ELSE IF p < ncap
       THEN LET iring == (1 + ISqrt(1 + 2 * p)) \div 2
                iphi  == p + 1 - 2 * iring * (iring - 1)
            IN [jr |-> iring, nr |-> iring, phi2 |-> 2 * iphi - 1]
       ELSE IF p < total - ncap
       THEN LET ip    == p - ncap
                iring == ip \div (4 * nside) + nside
                iphi  == (ip % (4 * nside)) + 1
                fodd  == IF (iring + nside) % 2 = 1 THEN 2 ELSE 1
            IN [jr |-> iring, nr |-> nside, phi2 |-> 2 * iphi - fodd]
       ELSE LET ip    == total - p
                iring == (1 + ISqrt(2 * ip - 1)) \div 2
                iphi  == 4 * iring + 1 - (ip - 2 * iring * (iring - 1))
            IN [jr |-> 4 * nside - iring, nr |-> iring, phi2 |-> 2 * iphi - 1]

\* z = sin(dec) of ring jr, six decimals
RingZ(jr, nside) ==
    IF jr < nside THEN M6 - (jr * jr * M6) \div (3 * nside * nside)
    ELSE IF jr > 3 * nside
    THEN (((4 * nside - jr) * (4 * nside - jr)) * M6) \div (3 * nside * nside) - M6
    ELSE IF jr <= 2 * nside THEN ((2 * nside - jr) * 2 * M6) \div (3 * nside)
    ELSE -(((jr - 2 * nside) * 2 * M6) \div (3 * nside))

\* variant: the centre mirrored to the other hemisphere
healpix_to_lonlat_mirrored(p, hp) ==
    LET loc == Pix2Loc(p, hp)
    IN [ra  |-> (loc.phi2 * 45 * Deg) \div loc.nr,
        dec |-> -ArcSin6(RingZ(loc.jr, hp.nside)) - Deg]

\* hp.healpix_to_lonlat([p]): the coordinate [ra, dec] of the centre of pixel p
healpix_to_lonlat(p, hp) ==
    LET loc == Pix2Loc(p, hp)
    IN [ra  |-> (loc.phi2 * 45 * Deg) \div loc.nr,
        dec |-> ArcSin6(RingZ(loc.jr, hp.nside))]

\* hp.pixel_resolution, arcseconds: the square root of the area of a pixel
pixel_resolution(hp) == ResolutionScale \div (1000 * hp.nside)

\* HEALPix objects of the round trip: both orderings at nside 1, 2 and 8
RoundConfigs == [nside : {1, 2, 8}, order : {"nested", "ring"}]

\* coordinates of the round trip: a grid over the sphere, and a point next to
\* the northern corner of a pixel of the ring at z = 2/3
RoundCoords ==
    { [ra |-> r * Deg, dec |-> d * Deg] :
        r \in {0, 45, 100, 180, 270, 359}, d \in {-90, -60, -42, -20, 0, 20, 42, 60, 90} }
      \cup { [ra |-> 0, dec |-> 48 * Deg + 360] }

\* hp.skycoord_to_healpix(c), hp.healpix_to_lonlat of the pixel, and
\* hp.skycoord_to_healpix of that centre
round_trip(c, hp) ==
    /\ LET p      == skycoord_to_healpix(c, hp)
           centre == healpix_to_lonlat(p, hp)
       IN last' = [NoCall EXCEPT !.op = "round_trip", !.ra = c.ra, !.dec = c.dec,
                                 !.hp = hp, !.pixels = {p},
                                 !.ret = << p, centre.ra, centre.dec,
                                            skycoord_to_healpix(centre, hp) >>]
    /\ UNCHANGED << dwarfs, nextId, indexes, fits, loader, locBuild, hpBuild, loads, builds >>

\* a round trip only computes: each one is taken from the initial state
NextRound == \E c \in RoundCoords, hp \in RoundConfigs : last = NoCall /\ round_trip(c, hp)

SpecRound == Init /\ [][NextRound]_vars

\* the coordinate and the centre of its pixel, of the latest round trip
RoundStart == [ra |-> last.ra, dec |-> last.dec]

RoundCentre == [ra |-> last.ret[2], dec |-> last.ret[3]]

\* C18 as stated: the centre of the pixel of a coordinate is at most the
\* pixel's angular size (hp.pixel_resolution) away from the coordinate, and
\* maps to the same pixel id.
C18_WithinPixelSize ==
    last.op = "round_trip" =>
        /\ SeparationAtMost(RoundStart, RoundCentre, pixel_resolution(last.hp))
        /\ last.ret[4] = last.ret[1]

\* C18 amended: the centre of the pixel of a coordinate maps to the same
\* pixel id and is less than 1.1 times the pixel resolution away from the
\* coordinate; the separation can exceed the pixel resolution.
C18_WithinPixelRadius ==
    last.op = "round_trip" =>
        /\ SeparationAtMost(RoundStart, RoundCentre, (11 * pixel_resolution(last.hp)) \div 10)
        /\ last.ret[4] = last.ret[1]

\* C18 witness: a round trip at nside 8 that moved the point farther than the
\* pixel resolution and came back to the same pixel
C18_Witness ==
    /\ last.op = "round_trip"
    /\ last.hp.nside = 8
    /\ ~SeparationAtMost(RoundStart, RoundCentre, pixel_resolution(last.hp))
    /\ last.ret[4] = last.ret[1]


\* ------------------------------------------------------------------------
\* Guarded index creation
\* ------------------------------------------------------------------------

\* both index cells, run any number of times beside the loader
NextIndex ==
    \/ LoaderStep(1)
    \/ CreateGeosphereIndex
    \/ CreateHealpixIndex

SpecIndex == Init /\ [][NextIndex]_vars

\* positions of the indexes of a name in a list of indexes
IndexesNamed(idx, name) == { k \in DOMAIN idx : idx[k].name = name }

\* C19: an index-creation step raises no error and leaves exactly one index
\* of its name, on its field path; run when that index exists already, it
\* leaves the indexes as they were
C19_IndexCreationIdempotent ==
    [][ last'.op = "create_index" =>
          /\ last'.error = ""
          /\ Cardinality(IndexesNamed(indexes', last'.name)) = 1
          /\ \A k \in IndexesNamed(indexes', last'.name) :
                indexes'[k].key = last'.path
          /\ (IndexesNamed(indexes, last'.name) # {} => indexes' = indexes) ]_vars

\* the geosphere index was created, then the healpix index, and the geosphere
\* cell was run again
C19_Witness ==
    /\ Len(indexes) = 2
    /\ indexes[1] = [name |-> "geosphere", key |-> "coords.loc"]
    /\ indexes[2] = [name |-> "healpix", key |-> "coords.healpix"]
    /\ last.op = "create_index"
    /\ last.name = "geosphere"
    /\ last.error = ""


\* ------------------------------------------------------------------------
\* FITS headers: FitsWrapper and the 'fits' collection
\* ------------------------------------------------------------------------

\* a card is <<keyword, value>>; a card without a value holds an object
Undefined == "<astropy.io.fits.card.Undefined>"

Card(keyword, value) == << keyword, value >>

\* the files loaded: a path and the cards of the primary header.  Two files
\* carry the same FILENAME card with different headers, three have no
\* FILENAME card and two of these the same base name, two repeat a keyword
\* and one has a card without a value
FitsFiles ==
    { [dir |-> "astropy/io/fits/tests/data", base |-> "test0.fits",
       cards |-> << Card("NAXIS", "0"), Card("", ""), Card("HISTORY", "a"),
                    Card("HISTORY", "b"), Card("FILENAME", "vtest3.fits") >>],
      [dir |-> "reprocessed", base |-> "test0.fits",
       cards |-> << Card("NAXIS", "2"), Card("FILENAME", "vtest3.fits") >>],
      [dir |-> "FITS-images", base |-> "HorseHead.fits",
       cards |-> << Card("NAXIS", "2"), Card("COMMENT", "x"),
                    Card("COMMENT", "y") >>],
      [dir |-> "mirror", base |-> "HorseHead.fits",
       cards |-> << Card("NAXIS", "3") >>],
      [dir |-> "FITS-images", base |-> "M13_blue_0001.fits",
       cards |-> << Card("NAXIS", "2"), Card("BLANK", Undefined) >>] }

test0 == CHOOSE f \in FitsFiles : f.dir = "astropy/io/fits/tests/data"

\* data = {}; for c in cards: if c[0] == '': continue; data[c[0]] = c[1]
RECURSIVE header_dict(_, _)
header_dict(data, cards) ==
    IF cards = << >> THEN data
    ELSE LET c == Head(cards)
         IN header_dict(IF c[1] = "" THEN data
                        ELSE [k \in DOMAIN data \cup {c[1]} |->
                                IF k = c[1] THEN c[2] ELSE data[k]],
                        Tail(cards))

\* files fits.open cannot read: a link that answers with no FITS file
Unreadable ==
    { [dir |-> "bdnyc", base |-> "L2_Kelu-1AB.fits", cards |-> << >>] }

\* a header value that is a number is written by its digits; no string value
\* of the model is made of digits
Numerals == {"0", "2", "3"}

\* isinstance(value, str)
is_str(value) == value \notin Numerals \cup {Undefined}

\* FitsWrapper.__init__, the loop over the cards: a repeated keyword is
\* appended to the value already there, and + raises TypeError unless both
\* values are strings
RECURSIVE wrapper_cards(_, _)
wrapper_cards(data, cards) ==
    IF cards = << >> THEN [error |-> "", data |-> data]
    ELSE LET c == Head(cards)
         IN IF c[1] = ""
            THEN wrapper_cards(data, Tail(cards))
            ELSE IF c[1] \notin DOMAIN data
            THEN wrapper_cards([k \in DOMAIN data \cup {c[1]} |->
                                  IF k = c[1] THEN c[2] ELSE data[k]],
                               Tail(cards))
            ELSE IF ~is_str(data[c[1]]) \/ ~is_str(c[2])
            THEN [error |-> "TypeError", data |-> << >>]
            ELSE wrapper_cards([data EXCEPT ![c[1]] = @ \o " " \o c[2]], Tail(cards))

\* os.path.basename(fits_filename)
basename(file) == file.base

\* FitsWrapper(fits_filename): what the constructor raises, and the data it
\* builds; FILENAME defaults to the file's base name
FitsWrapper(file) ==
    LET built == wrapper_cards(<< >>, file.cards)
        data  == built.data
    IN IF file \in Unreadable THEN [error |-> "OSError", data |-> << >>]
       ELSE IF built.error # "" THEN built
       ELSE IF "FILENAME" \in DOMAIN data
       THEN built
       ELSE [error |-> "",
             data  |-> [k \in DOMAIN data \cup {"FILENAME"} |->
                          IF k = "FILENAME" THEN basename(file) ELSE data[k]]]

\* json.loads(json.dumps(data, default=lambda x: x.__dict__)): an object is
\* written as its attribute dictionary, which the Undefined object has empty
json_loads_dumps(data) ==
    [k \in DOMAIN data |-> IF data[k] = Undefined THEN "{}" ELSE data[k]]

\* a stored document: the data and the store's _id
Document(id, data) ==
    [k \in DOMAIN data \cup {"_id"} |-> IF k = "_id" THEN id ELSE data[k]]

\* positions of the documents matching {'FILENAME': name}
FindFilename(coll, name) ==
    { k \in DOMAIN coll : "FILENAME" \in DOMAIN coll[k] /\ coll[k]["FILENAME"] = name }

\* collection.insert_one(json_data)
insert_one(coll, json_data) == Append(coll, Document(Len(coll) + 1, json_data))

\* variant: replace_one without upsert, nothing is written when no document
\* matches
replace_one_no_upsert(coll, name, replacement) ==
    LET found == FindFilename(coll, name)
    IN IF found = {} THEN coll
       ELSE LET k == CHOOSE m \in found : \A n \in found : m <= n
            IN [coll EXCEPT ![k] = Document(coll[k]["_id"], replacement)]

\* collection.replace_one(filter={'FILENAME': name}, replacement, upsert=True):
\* the first matching document is replaced and keeps its _id; without a match
\* the replacement is inserted
replace_one_upsert(coll, name, replacement) ==
    LET found == FindFilename(coll, name)
    IN IF found = {} THEN insert_one(coll, replacement)
       ELSE LET k == CHOOSE m \in found : \A n \in found : m <= n
            IN [coll EXCEPT ![k] = Document(coll[k]["_id"], replacement)]

\* collection = db.fits; collection.drop()
FitsDrop ==
    /\ fits' = << >>
    /\ last' = [NoCall EXCEPT !.op = "drop", !.collection = "fits"]
    /\ UNCHANGED << dwarfs, nextId, indexes, loader, locBuild, hpBuild, loads, builds >>

\* the cell after the drop: result = collection.insert_one(json_data), with
\* the header dictionary of test0.fits
FitsInsertOne ==
    /\ last.op = "drop"
    /\ LET json_data == json_loads_dumps(header_dict(<< >>, test0.cards))
       IN /\ fits' = insert_one(fits, json_data)
          /\ last' = [NoCall EXCEPT !.op = "insert_one", !.collection = "fits",
                                    !.name = json_data["FILENAME"],
                                    !.result = << json_data >>]
    /\ UNCHANGED << dwarfs, nextId, indexes, loader, locBuild, hpBuild, loads, builds >>

\* fw = FitsWrapper(file); fw.load_mongodb(collection, verbose=True); ret is
\* <<result.modified_count, result.upserted_id>>, 0 for no upserted id
load_mongodb(file) ==
    LET data      == FitsWrapper(file).data
        json_data == json_loads_dumps(data)
        name      == data["FILENAME"]
        found     == FindFilename(fits, name)
        after     == replace_one_upsert(fits, name, json_data)
    IN /\ fits' = after
       /\ last' = [NoCall EXCEPT !.op = "load_mongodb", !.collection = "fits",
                                 !.path = file.dir \o "/" \o file.base,
                                 !.name = name,
                                 !.result = << json_data >>,
                                 !.ret = << IF found # {} /\ after # fits THEN 1 ELSE 0,
                                            IF Len(after) > Len(fits)
                                            THEN after[Len(after)]["_id"] ELSE 0 >>]
       /\ UNCHANGED << dwarfs, nextId, indexes, loader, locBuild, hpBuild, loads, builds >>

NextFits ==
    \/ FitsDrop
    \/ FitsInsertOne
    \/ \E file \in FitsFiles : load_mongodb(file)

SpecFits == Init /\ [][NextFits]_vars

\* a document without its _id
Stored(doc) == [k \in DOMAIN doc \ {"_id"} |-> doc[k]]

\* the documents of a collection whose FILENAME is not name, in store order
OtherFiles(coll, name) ==
    SelectSeq(coll, LAMBDA doc : doc["FILENAME"] # name)

\* C20: after a load_mongodb call the collection holds exactly one document
\* with the FILENAME loaded, carrying the data of that load, and the documents
\* of every other FILENAME are as they were; loading the file that was loaded
\* last leaves the collection as it was
C20_UpsertByFilename ==
    [][ last'.op = "load_mongodb" =>
          /\ Cardinality(FindFilename(fits', last'.name)) = 1
          /\ \A k \in FindFilename(fits', last'.name) :
                Stored(fits'[k]) = last'.result[1]
          /\ OtherFiles(fits', last'.name) = OtherFiles(fits, last'.name)
          /\ \A m, n \in DOMAIN fits' :
                fits'[m]["FILENAME"] = fits'[n]["FILENAME"] => m = n
          /\ (last.op = "load_mongodb" /\ last.path = last'.path => fits' = fits) ]_vars

\* HorseHead.fits was loaded, then another file, then HorseHead.fits twice
\* in a row: the second of the two loads matched one document, modified
\* and inserted none, and the collection still holds one document for it
C20_Witness ==
    /\ last.op = "load_mongodb"
    /\ last.name = "HorseHead.fits"
    /\ last.ret = << 0, 0 >>
    /\ Len(fits) >= 2
    /\ Stored(fits[1]) = last.result[1]
    /\ "COMMENT" \in DOMAIN fits[1]
    /\ fits[1]["COMMENT"] = "x y"
    /\ Cardinality(FindFilename(fits, "HorseHead.fits")) = 1


\* ------------------------------------------------------------------------
\* Searches only read
\* ------------------------------------------------------------------------

\* C21: a cone search of either strategy leaves the collections as they were:
\* the same documents with the same fields, coords.loc and coords.healpix
\* included, and the same indexes
C21_SearchOnlyReads ==
    [][ last.op \notin SearchOps /\ last'.op \in SearchOps =>
          /\ dwarfs' = dwarfs
          /\ fits' = fits
          /\ indexes' = indexes
          /\ nextId' = nextId ]_vars

\* a search that returned a document carrying both derived fields
C21_Witness ==
    /\ last.op \in SearchOps
    /\ last.error = ""
    /\ last.result # << >>
    /\ \E i \in { last.result[k].id : k \in DOMAIN last.result } : dwarfs[i].loc # Absent /\ dwarfs[i].healpix # Absent


\* ------------------------------------------------------------------------
\* The notebooks run on the table of 22 brown dwarfs
\* ------------------------------------------------------------------------

\* json_data = json.loads(bd.to_json()); dwarfs.insert_one(json_data), the
\* cell after dwarfs.drop()
InsertBd ==
    /\ dwarfs = << >>
    /\ dwarfs' = [i \in {nextId} |-> to_json(bd)]
    /\ nextId' = nextId + 1
    /\ last' = NoCall
    /\ UNCHANGED << indexes, loader, locBuild, hpBuild, loads, builds, fits >>

\* search radii on the table: degrees for the 2dsphere strategy, arcseconds
\* for the HEALPix strategy
FixtureGeoRadii == {2, 10, 25}

FixtureHpRadii == {60, 180, 1800}

\* the cells of both notebooks, one after another: bd is inserted, the
\* loader loop runs on bddata, then the build loops, the index cells and the
\* searches in any order
NextFixture ==
    \/ AllIdle /\ InsertBd
    \/ AllIdle /\ dwarfs # << >> /\ LoaderStart(1, 3)
    \/ LoaderCount(1)
    \/ LoaderFind(1)
    \/ LoaderReplace(1)
    \/ LoaderInsert(1)
    \/ AllIdle /\ LocUnset
    \/ LocFind
    \/ LocUpdate
    \/ AllIdle /\ HpUnset
    \/ HpFind
    \/ HpUpdateWith(hp_fixture)
    \/ AllIdle /\ CreateGeosphereIndex
    \/ AllIdle /\ CreateHealpixIndex
    \/ \E c \in FixtureCenters, radius \in FixtureGeoRadii :
          AllIdle /\ AfterWrite /\ cone_search(c.ra, c.dec, radius, "dwarfs", "coords.loc")
    \/ \E c \in FixtureCenters, radius \in FixtureHpRadii :
          AllIdle /\ AfterWrite
                  /\ cone_search_healpix(c.ra, c.dec, radius, "dwarfs", "coords.healpix",
                                         hp_fixture)

SpecFixture == Init /\ [][NextFixture]_vars

\* the source_id of the documents a search returned
ReturnedSources == { dwarfs[last.result[k].id].source_id : k \in DOMAIN last.result }

\* the documents with a source_id
WithSource(source_id) == { i \in DOMAIN dwarfs : dwarfs[i].source_id = source_id }

\* the collection holds bd and every row of bddata, once each
TableLoaded ==
    /\ Cardinality(DOMAIN dwarfs) = Len(bddata) + 1
    /\ Cardinality(WithSource(bd.source_id)) = 1
    /\ \A k \in DOMAIN bddata : Cardinality(WithSource(bddata[k].source_id)) = 1


\* the 2dsphere search cone_search(220., 12., 10.) was made on the loaded
\* table with coords.loc built on every document and the index in place
GeoSearchOnTable ==
    /\ last.op = "cone_search"
    /\ last.ra = 220 * Deg /\ last.dec = 12 * Deg /\ last.radius = 10
    /\ TableLoaded
    /\ \A i \in DOMAIN dwarfs : dwarfs[i].loc # Absent
    /\ "geosphere" \in index_information("dwarfs")

\* C22: on the table of 22 rows, cone_search(220., 12., 10.) of the 2dsphere
\* strategy returns the rows at (222.106791, 10.533056) and
\* (219.868167, 19.487472), source_id 4 and 7, and no other
C22_GeoSearchOnTable ==
    GeoSearchOnTable =>
        /\ last.error = ""
        /\ Len(last.result) = 2
        /\ { [ra  |-> dwarfs[last.result[k].id].ra,
              dec |-> dwarfs[last.result[k].id].dec] : k \in DOMAIN last.result }
             = { [ra |-> Arcsec(1, 222, 106791), dec |-> Arcsec(1, 10, 533056)],
                 [ra |-> Arcsec(1, 219, 868167), dec |-> Arcsec(1, 19, 487472)] }
        /\ ReturnedSources = {4, 7}

C22_Witness == GeoSearchOnTable /\ ReturnedSources = {4, 7}

\* the HEALPix search cone_search(181.9, -39.5, 180.) was made on the loaded
\* table with coords.healpix built on every document at 10 arcsec
HpSearchOnTable ==
    /\ last.op = "cone_search_healpix"
    /\ last.ra = Arcsec(1, 181, 900000) /\ last.dec = Arcsec(-1, 39, 500000)
    /\ last.radius = 180
    /\ last.hp = hp_fixture
    /\ TableLoaded
    /\ \A i \in DOMAIN dwarfs : dwarfs[i].healpix # Absent

\* C23: on the table of 22 rows with pixel ids of 10-arcsec resolution,
\* cone_search(181.9, -39.5, 180.) of the HEALPix strategy returns the row at
\* (181.889, -39.548), source_id 11, and no other
C23_HpSearchOnTable ==
    HpSearchOnTable =>
        /\ last.error = ""
        /\ Len(last.result) = 1
        /\ \A k \in DOMAIN last.result :
              /\ dwarfs[last.result[k].id].ra = Arcsec(1, 181, 889000)
              /\ dwarfs[last.result[k].id].dec = Arcsec(-1, 39, 548000)
        /\ ReturnedSources = {11}

\* the search returned the document of source_id 11, whose stored pixel id
\* is the printed 6443584085 = 6 * 2^30 + 1133141
C23_Witness ==
    /\ HpSearchOnTable
    /\ ReturnedSources = {11}
    /\ \A i \in WithSource(11) : dwarfs[i].healpix = { << 6, 1133141 >> }


\* ------------------------------------------------------------------------
\* Re-creating a BrownDwarf object from its document
\* ------------------------------------------------------------------------

\* Photometry(**d): the object of a dictionary; of null it is a TypeError
PhotometryOf(d) ==
    { [class |-> "Photometry", value |-> o.value, error |-> o.error, unit |-> o.unit] :
        o \in d }

\* what the re-creation raises: Photometry(**doc['J']), (**doc['H']) and
\* (**doc['Ks']) need a dictionary, Coords(**doc['coords']) takes ra and dec
\* and no other key
rebuild_error(doc) ==
    IF doc.J = None \/ doc.H = None \/ doc.Ks = None THEN "TypeError"
    ELSE IF doc.loc # Absent \/ doc.healpix # Absent THEN "TypeError"
    ELSE ""

\* new_bd = BrownDwarf(**doc, coords=c, J=j, H=h, Ks=ks)
new_bd(doc) ==
    [source_id |-> doc.source_id, spectral_type |-> doc.spectral_type,
     ra |-> doc.ra, dec |-> doc.dec,
     J |-> PhotometryOf(doc.J), H |-> PhotometryOf(doc.H), Ks |-> PhotometryOf(doc.Ks)]

\* cursor = dwarfs.find({'source_id': source_id}); doc = list(cursor)[0];
\* del doc['_id']; j, h, ks, c and new_bd are built from doc
Rebuild(source_id) ==
    /\ last.op # "rebuild"
    /\ WithSource(source_id) # {}
    /\ LET i   == CHOOSE m \in WithSource(source_id) : \A n \in WithSource(source_id) : m <= n
           doc == dwarfs[i]
       IN last' = [NoCall EXCEPT !.op = "rebuild", !.ret = << i >>,
                                 !.error = rebuild_error(doc),
                                 !.result = IF rebuild_error(doc) = "" THEN << new_bd(doc) >>
                                            ELSE << >>]
    /\ UNCHANGED << dwarfs, nextId, indexes, loader, locBuild, hpBuild, loads, builds, fits >>

\* bd is inserted, the loader loop runs on the two-row catalog, coords.loc
\* is built, and documents are fetched and re-created, one cell after another
NextRebuild ==
    \/ AllIdle /\ InsertBd
    \/ \E rel \in Releases : AllIdle /\ LoaderStart(1, rel)
    \/ LoaderCount(1)
    \/ LoaderFind(1)
    \/ LoaderReplace(1)
    \/ LoaderInsert(1)
    \/ AllIdle /\ LocUnset
    \/ LocFind
    \/ LocUpdate
    \/ \E source_id \in {2, 11} : AllIdle /\ Rebuild(source_id)

SpecRebuild == Init /\ [][NextRebuild]_vars

\* the objects the documents are made of
Originals == {bd} \cup UNION { { Data(rel)[k] : k \in DOMAIN Data(rel) } : rel \in Releases }

\* C24: re-creating the object of a stored document raises nothing and
\* gives an object equal to the one the document was made of
C24_RebuildEqualsOriginal ==
    last.op = "rebuild" =>
        /\ last.error = ""
        /\ \A k \in DOMAIN last.result :
              /\ last.result[k] \in Originals
              /\ to_json(last.result[k])
                   = [dwarfs[last.ret[1]] EXCEPT !.loc = Absent, !.healpix = Absent]


\* ------------------------------------------------------------------------
\* The distances cone_search_advanced reports
\* ------------------------------------------------------------------------

\* C25: every distance the usage loop of cone_search_advanced prints, the
\* store's distance divided by wgs_scale at the record's declination, is at
\* most the radius of the search in degrees (both in hundredths here)
C25_ReportedWithinRadius ==
    last.op = "cone_search_advanced" /\ last.error = "" =>
        \A k \in DOMAIN last.result : last.result[k].degrees <= 100 * last.radius


\* ------------------------------------------------------------------------
\* Reloading a record and rebuilding its derived fields
\* ------------------------------------------------------------------------
\* the cone of the latest search contains the position a document has now:
\* within maxDistance of the point for the 2dsphere strategy, in one of the
\* enumerated pixels for the HEALPix strategy
ConeContains(doc) ==
    IF last.path = "coords.loc"
    THEN /\ Matches(doc, last.query)
         /\ \A point \in last.point : GeoDistance(geojson(doc), point) <= last.maxDistance
    ELSE skycoord_to_healpix([ra |-> doc.ra, dec |-> doc.dec], last.hp) \in last.pixels

\* the derived field the latest search queried, of a document
QueriedField(doc) == IF last.path = "coords.loc" THEN doc.loc ELSE doc.healpix

\* a search of the dwarfs collection that raised nothing, made with the
\* module-level hp if it is a HEALPix search
SearchOfDwarfs ==
    /\ last.op \in SearchOps
    /\ last.error = ""
    /\ last.target = "dwarfs"
    /\ last.hp = hp_global

\* C26: a document the loader replaces loses coords.loc and coords.healpix; a
\* document without the derived field is returned by no search of that
\* strategy; a document that has the field again is returned by every
\* search whose cone contains its position
C26_ReloadThenRebuild ==
    /\ [][ \A i \in DOMAIN dwarfs :
              loader' # loader /\ dwarfs'[i] # dwarfs[i] =>
                  dwarfs'[i].loc = Absent /\ dwarfs'[i].healpix = Absent ]_vars
    /\ [](SearchOfDwarfs =>
            \A i \in DOMAIN dwarfs :
               /\ QueriedField(dwarfs[i]) = Absent => i \notin ResultIds
               /\ QueriedField(dwarfs[i]) # Absent /\ ConeContains(dwarfs[i])
                    => i \in ResultIds)


\* ------------------------------------------------------------------------
\* A rebuild of a derived field with no concurrent writer
\* ------------------------------------------------------------------------

\* a running cell goes on to its end: the loops of the two rebuilds are not
\* suspended for ever
SpecCallsFair ==
    /\ SpecCalls
    /\ WF_vars(LocFind) /\ WF_vars(LocUpdate)
    /\ WF_vars(HpFind) /\ WF_vars(HpUpdate)

\* the step leaves every document as it was but for coords.loc
OnlyLocChanges ==
    /\ DOMAIN dwarfs' = DOMAIN dwarfs
    /\ \A i \in DOMAIN dwarfs : dwarfs'[i] = [dwarfs[i] EXCEPT !.loc = dwarfs'[i].loc]
    /\ fits' = fits /\ nextId' = nextId

\* the step leaves every document as it was but for coords.healpix
OnlyHealpixChanges ==
    /\ DOMAIN dwarfs' = DOMAIN dwarfs
    /\ \A i \in DOMAIN dwarfs :
          dwarfs'[i] = [dwarfs[i] EXCEPT !.healpix = dwarfs'[i].healpix]
    /\ fits' = fits /\ nextId' = nextId

\* C27: run with no concurrent writer, a rebuild of a derived field ends,
\* every document carries the field when it ends, and no step of it changes
\* anything but that field: the documents, their _id, ra, dec and other
\* fields and the other strategy's derived field stay as they were
C27_RebuildFrame ==
    /\ [][ locBuild' # locBuild => OnlyLocChanges ]_vars
    /\ [][ hpBuild' # hpBuild => OnlyHealpixChanges ]_vars
    /\ [][ locBuild.pc = "loop" /\ locBuild'.pc = "idle" =>
              \A i \in DOMAIN dwarfs' : dwarfs'[i].loc # Absent ]_vars
    /\ [][ hpBuild.pc = "loop" /\ hpBuild'.pc = "idle" =>
              \A i \in DOMAIN dwarfs' : dwarfs'[i].healpix # Absent ]_vars
    /\ (locBuild.pc # "idle") ~> (locBuild.pc = "idle")
    /\ (hpBuild.pc # "idle") ~> (hpBuild.pc = "idle")

\* C27 witness: both rebuilds have run over a collection of several
\* documents, and every document carries both derived fields
C27_Witness ==
    /\ AllIdle /\ last = NoCall
    /\ builds["loc"] > 0 /\ builds["healpix"] > 0
    /\ Len(dwarfs) >= 2
    /\ \A i \in DOMAIN dwarfs : dwarfs[i].loc # Absent /\ dwarfs[i].healpix # Absent


\* ------------------------------------------------------------------------
\* stcs_to_geojson: an STC-S polygon string as a GeoJSON polygon
\* ------------------------------------------------------------------------

\* the elements stcs.split() gives: a word, or the text of a number with the
\* value float() reads from it
Word(text) == [kind |-> "word", text |-> text, value |-> 0]

Number(value) == [kind |-> "number", text |-> "", value |-> value]

\* str.upper() of the words used here; the text of a number has no letters
upper(elem) ==
    IF elem.kind = "number" THEN ""
    ELSE CASE elem.text \in {"POLYGON", "polygon", "Polygon"} -> "POLYGON"
           [] elem.text \in {"CIRCLE", "circle"} -> "CIRCLE"
           [] elem.text \in {"ICRS", "icrs"} -> "ICRS"
           [] elem.text \in {"FK5", "fk5"} -> "FK5"
           [] OTHER -> elem.text

\* the loop over enumerate(elems[start:]), from the i-th element on (i counts
\* from 0 as in the code): float(elem) raises ValueError on a word
RECURSIVE vertex_loop(_, _, _, _)
vertex_loop(rest, i, points, vertex) ==
    IF i >= Len(rest)
    THEN [error |-> "", points |-> Append(points, vertex)]
    ELSE LET elem == rest[i + 1]
         IN IF elem.kind # "number"
            THEN [error |-> "ValueError", points |-> << >>]
            ELSE IF i % 2 = 0 /\ i # 0
                 THEN vertex_loop(rest, i + 1, Append(points, vertex), << elem.value >>)
                 ELSE vertex_loop(rest, i + 1, points, Append(vertex, elem.value))

\* stcs_to_geojson(stcs), on the elements of stcs: what it raises, and the
\* value it returns (no value stands for None)
stcs_to_geojson(elems) ==
    IF Len(elems) < 1
    THEN [error |-> "IndexError", value |-> {}]
    ELSE IF upper(elems[1]) # "POLYGON"
    THEN [error |-> "", value |-> {}]
    ELSE IF Len(elems) < 2
    THEN [error |-> "IndexError", value |-> {}]
    ELSE LET start == IF elems[2].kind = "number" THEN 1 ELSE 2
             loop  == vertex_loop(SubSeq(elems, start + 1, Len(elems)), 0, << >>, << >>)
         IN IF loop.error # ""
            THEN [error |-> loop.error, value |-> {}]
            ELSE [error |-> "",
                  value |-> { [type |-> "Polygon", coordinates |-> << loop.points >>] }]

\* the longest list of numbers given
MaxNumbers == 6

\* the values of the example's coordinates
StcsValues == {0, 3, 6}

RECURSIVE NumberLists(_)
NumberLists(n) ==
    IF n = 0 THEN { << >> }
    ELSE LET shorter == NumberLists(n - 1)
         IN shorter \cup { Append(s, Number(v)) :
                             s \in { t \in shorter : Len(t) = n - 1 }, v \in StcsValues }

\* stcs = "POLYGON ICRS 0. 0. 3. 6. 6. 1. 0. 0."
stcs_example ==
    << Word("POLYGON"), Word("ICRS"), Number(0), Number(0), Number(3), Number(6),
       Number(6), Number(1), Number(0), Number(0) >>

\* the strings given: a shape keyword in several letter cases, a frame or
\* none, and a list of numbers; the example of the notebook; the empty string
StcsInputs ==
    { << Word(shape) >> \o frame \o numbers :
         shape \in {"POLYGON", "polygon", "Polygon", "CIRCLE"},
         frame \in { << >>, << Word("ICRS") >>, << Word("fk5") >> },
         numbers \in NumberLists(MaxNumbers) }
    \cup { stcs_example, << >> }

\* print(stcs_to_geojson(stcs))
StcsCall(elems) ==
    /\ LET r == stcs_to_geojson(elems)
       IN last' = [NoCall EXCEPT !.op = "stcs_to_geojson", !.ret = elems,
                                 !.error = r.error, !.point = r.value]
    /\ UNCHANGED << dwarfs, nextId, indexes, fits, loader, locBuild, hpBuild, loads, builds >>

\* a conversion only computes: each one is taken from the initial state
NextStcs ==
    \E elems \in (IF last.op = "none" THEN StcsInputs ELSE {}) : StcsCall(elems)

SpecStcs == Init /\ [][NextStcs]_vars

\* the string of the latest call has a frame token
HasFrame == Len(last.ret) >= 2 /\ last.ret[2].kind = "word"

\* the numbers of the string of the latest call
StcsNumbers == SubSeq(last.ret, IF HasFrame THEN 3 ELSE 2, Len(last.ret))

\* the string of the latest call is POLYGON in some letter case, at most one
\* frame token, and an even count of numbers
WellFormedPolygon ==
    /\ last.op = "stcs_to_geojson"
    /\ Len(last.ret) >= 1
    /\ upper(last.ret[1]) = "POLYGON"
    /\ \A k \in DOMAIN StcsNumbers : StcsNumbers[k].kind = "number"
    /\ Len(StcsNumbers) % 2 = 0

\* C28: for POLYGON in any letter case, an optional frame token and 2n
\* numbers, the result is a Polygon of one ring of exactly n vertices, vertex
\* k being the numbers 2k and 2k+1 in input order, and it is the result for
\* the same string without the frame token
C28_PolygonVertices ==
    WellFormedPolygon =>
        /\ last.error = ""
        /\ \E polygon \in last.point :
              /\ last.point = {polygon}
              /\ polygon.type = "Polygon"
              /\ Len(polygon.coordinates) = 1
              /\ LET ring == polygon.coordinates[1]
                 IN /\ 2 * Len(ring) = Len(StcsNumbers)
                    /\ \A k \in DOMAIN ring :
                          ring[k] = << StcsNumbers[2 * k - 1].value,
                                       StcsNumbers[2 * k].value >>
        /\ stcs_to_geojson(<< last.ret[1] >> \o StcsNumbers)
              = [error |-> last.error, value |-> last.point]


\* ------------------------------------------------------------------------
\* The data FitsWrapper builds from the cards of a header
\* ------------------------------------------------------------------------

\* the longest header given
MaxCards == 3

\* the cards of the headers given: a commentary keyword, a keyword with a
\* value, the empty keyword; string values, a number, a card without a value
HeaderCards ==
    { Card(keyword, value) : keyword \in {"", "COMMENT", "NAXIS"},
                             value \in {"a", "b", "2", Undefined} }

RECURSIVE CardLists(_)
CardLists(n) ==
    IF n = 0 THEN { << >> }
    ELSE LET shorter == CardLists(n - 1)
         IN shorter \cup { Append(s, c) :
                             s \in { t \in shorter : Len(t) = n - 1 }, c \in HeaderCards }

\* fw = FitsWrapper(fits_filename), for a file with the given primary header
FitsWrapperCall(cards) ==
    /\ LET fw == FitsWrapper([dir |-> "FITS-images", base |-> "header.fits",
                              cards |-> cards])
       IN last' = [NoCall EXCEPT !.op = "FitsWrapper", !.ret = cards,
                                 !.error = fw.error,
                                 !.result = IF fw.error = "" THEN << fw.data >> ELSE << >>]
    /\ UNCHANGED << dwarfs, nextId, indexes, fits, loader, locBuild, hpBuild, loads, builds >>

\* a construction only computes: each one is taken from the initial state
NextWrapper ==
    \E cards \in (IF last.op = "none" THEN CardLists(MaxCards) ELSE {}) :
        FitsWrapperCall(cards)

SpecWrapper == Init /\ [][NextWrapper]_vars

\* the keywords of a header, the empty one left out
Keywords(cards) == { cards[k][1] : k \in DOMAIN cards } \ {""}

\* the values of the cards with a keyword, in card order
ValuesOf(cards, keyword) ==
    LET with == SelectSeq(cards, LAMBDA c : c[1] = keyword)
    IN [k \in DOMAIN with |-> with[k][2]]

\* values joined by single spaces
RECURSIVE Joined(_)
Joined(values) ==
    IF Len(values) = 1 THEN values[1]
    ELSE Joined(SubSeq(values, 1, Len(values) - 1)) \o " " \o values[Len(values)]

\* C29: FitsWrapper builds its data with, for every keyword of the header,
\* the values of all cards of that keyword joined by single spaces in card
\* order (the value itself for a keyword occurring once), and with nothing
\* for the cards of the empty keyword
C29_ValuesJoined ==
    last.op = "FitsWrapper" =>
        /\ last.error = ""
        /\ \E data \in { last.result[k] : k \in DOMAIN last.result } :
              /\ DOMAIN data = Keywords(last.ret) \cup {"FILENAME"}
              /\ \A keyword \in Keywords(last.ret) :
                    data[keyword] = Joined(ValuesOf(last.ret, keyword))


\* ------------------------------------------------------------------------
\* The batch load of a list of FITS files
\* ------------------------------------------------------------------------

\* the longest list loaded in one batch
MaxBatch == 3

\* a file whose header repeats a keyword with a number
repeated_number ==
    [dir |-> "bdnyc", base |-> "U11122_1305-2541_kelu1_lris.fits",
     cards |-> << Card("NAXIS", "2"), Card("EXPTIME", "3"), Card("EXPTIME", "3") >>]

\* the files a list is made of
BatchFiles == FitsFiles \cup Unreadable \cup {repeated_number}

\* the lists of distinct files, up to a length
RECURSIVE FileLists(_)
FileLists(n) ==
    IF n = 0 THEN { << >> }
    ELSE LET shorter == FileLists(n - 1)
         IN shorter \cup
            UNION { { Append(s, f) :
                        f \in { g \in BatchFiles : \A k \in DOMAIN s : s[k] # g } } :
                    s \in { t \in shorter : Len(t) = n - 1 } }

\* the path of a file, as the list gives it
path_of(file) == file.dir \o "/" \o file.base

\* variant: the loop without the try, so the first failure ends it
RECURSIVE batch_loop_uncaught(_, _, _)
batch_loop_uncaught(coll, files, reports) ==
    IF files = << >> THEN [coll |-> coll, reports |-> reports]
    ELSE LET f  == Head(files)
             fw == FitsWrapper(f)
         IN IF fw.error # ""
            THEN [coll |-> coll,
                  reports |-> Append(reports, [file |-> path_of(f), error |-> fw.error])]
            ELSE batch_loop_uncaught(
                     replace_one_upsert(coll, fw.data["FILENAME"], json_loads_dumps(fw.data)),
                     Tail(files), reports)

\* for f in fits_links.split('\n'): try: fw = FitsWrapper(f);
\* fw.load_mongodb(collection) except Exception as e: print(...)
RECURSIVE batch_loop(_, _, _)
batch_loop(coll, files, reports) ==
    IF files = << >> THEN [coll |-> coll, reports |-> reports]
    ELSE LET f  == Head(files)
             fw == FitsWrapper(f)
         IN IF fw.error # ""
            THEN batch_loop(coll, Tail(files),
                            Append(reports, [file |-> path_of(f), error |-> fw.error]))
            ELSE batch_loop(
                     replace_one_upsert(coll, fw.data["FILENAME"], json_loads_dumps(fw.data)),
                     Tail(files), reports)

\* the cell of the batch load, run after the cells that load test0.fits
BatchLoad(files) ==
    /\ last.op = "load_mongodb"
    /\ LET done == batch_loop(fits, files, << >>)
       IN /\ fits' = done.coll
          /\ last' = [NoCall EXCEPT !.op = "batch", !.collection = "fits",
                                    !.ret = files, !.result = done.reports]
    /\ UNCHANGED << dwarfs, nextId, indexes, loader, locBuild, hpBuild, loads, builds >>

NextBatch ==
    \/ FitsDrop
    \/ FitsInsertOne
    \/ last.op = "insert_one" /\ load_mongodb(test0)
    \/ \E files \in FileLists(MaxBatch) : BatchLoad(files)

SpecBatch == Init /\ [][NextBatch]_vars

\* the file fails: the constructor raises
Fails(file) == FitsWrapper(file).error # ""

\* the document load_mongodb stores for a file
DocumentOf(file) == json_loads_dumps(FitsWrapper(file).data)

\* the files of a list that did not fail, in list order
Loaded(files) == SelectSeq(files, LAMBDA f : ~Fails(f))

\* the reports printed for a list: one for each file that fails, in list order
Reports(files) ==
    LET failed == SelectSeq(files, LAMBDA f : Fails(f))
    IN [k \in DOMAIN failed |->
          [file |-> path_of(failed[k]), error |-> FitsWrapper(failed[k]).error]]

\* every failure of the batch is reported, and the collection is what the
\* batch of the files that did not fail makes of it
FailuresSkipped ==
    /\ last'.result = Reports(last'.ret)
    /\ fits' = batch_loop(fits, Loaded(last'.ret), << >>).coll

\* C30: each failure of the batch is caught and reported and adds or changes
\* no document, the later files of the list are loaded, and after the loop
\* every file that did not fail has its document in the collection
C30_BatchLoad ==
    [][ last'.op = "batch" =>
          /\ FailuresSkipped
          /\ \A k \in DOMAIN Loaded(last'.ret) :
                \E m \in DOMAIN fits' : Stored(fits'[m]) = DocumentOf(Loaded(last'.ret)[k]) ]_vars

\* C30 as amended: each failure of the batch is caught and reported and adds
\* or changes no document, the later files of the list are loaded, and after
\* the loop the collection holds, for every file that did not fail, exactly
\* one document of its FILENAME: that of the last file of the list that did
\* not fail and has this FILENAME
C30_BatchLoadLastOfFilename ==
    [][ last'.op = "batch" =>
          /\ FailuresSkipped
          /\ LET loaded == Loaded(last'.ret)
             IN \A k \in DOMAIN loaded :
                   LET name == DocumentOf(loaded[k])["FILENAME"]
                       same == { j \in DOMAIN loaded :
                                   DocumentOf(loaded[j])["FILENAME"] = name }
                       final == CHOOSE j \in same : \A i \in same : i <= j
                   IN /\ Cardinality(FindFilename(fits', name)) = 1
                      /\ \A m \in FindFilename(fits', name) :
                            Stored(fits'[m]) = DocumentOf(loaded[final]) ]_vars

\* C30 witness: a batch whose second file failed and whose third file, of
\* the FILENAME of the first, is the one in the collection
C30_Witness ==
    /\ last.op = "batch"
    /\ Len(last.ret) = 3
    /\ ~Fails(last.ret[1]) /\ Fails(last.ret[2]) /\ ~Fails(last.ret[3])
    /\ DocumentOf(last.ret[1])["FILENAME"] = DocumentOf(last.ret[3])["FILENAME"]
    /\ DocumentOf(last.ret[1]) # DocumentOf(last.ret[3])
    /\ Len(last.result) = 1
    /\ \E m \in DOMAIN fits : Stored(fits[m]) = DocumentOf(last.ret[3])

====
